---------------------------- MODULE Spec2Model ----------------------------
(***************************************************************************)
(* State-machine model of the game store of stvncode/invador (the zustand  *)
(* store with level progression, ship tiers and boss battles), of the      *)
(* level mathematics in levels.ts and of the frame callback of Game.tsx.   *)
(*                                                                         *)
(* Representation choices                                                  *)
(*  - health, shield and damage are fixed-point numbers with two binary    *)
(*    fractional digits (unit 1/Q): the code produces 37.5 (laser damage), *)
(*    2.5 (regeneration in 500 ms) and 0.25 (shield regeneration).         *)
(*  - scores handed to the level mathematics carry LevelScale = 2^10 as    *)
(*    denominator: 1500 * 1.5^k is then exact up to k = 12 (the thresholds *)
(*    of levels 6..18); the thresholds of levels 19 and 20 are rounded     *)
(*    down by less than 0.01, which no integer score can tell apart        *)
(*    (877787.78 and 1315681.67). Scores stay below 2^31 / LevelScale.     *)
(*  - positions are integer pixels, times are integer milliseconds.        *)
(*  - Date.now() is the variable now; it is constant inside one frame.     *)
(*  - Math.random() is an input: the outcomes a frame consumes are chosen  *)
(*    by the action (\E) and handed to the operators in the record rnd.    *)
(*    The random part of an id is the number of ids made so far in the     *)
(*    frame, so two ids of one frame differ exactly when the code draws a  *)
(*    random number for them.                                              *)
(***************************************************************************)
EXTENDS Integers, Sequences, FiniteSets, TLC

VARIABLES
  gameState,        \* 'menu' | 'playing' | 'paused' | 'gameOver'
  isRunning,
  isPaused,
  level,
  isBossBattle,
  player,
  enemies,
  bullets,
  powerUps,
  particles,
  explosions,
  inputState,
  stats,
  lastFrameTime,
  lastSpawnTime,
  now,              \* Date.now()
  shootCooldownRef, \* Game.tsx: shootCooldownRef.current
  calls,            \* history: the calls made by the last action
  probe             \* argument and result of the last level-math evaluation

vars == <<gameState, isRunning, isPaused, level, isBossBattle, player, enemies,
          bullets, powerUps, particles, explosions, inputState, stats,
          lastFrameTime, lastSpawnTime, now, shootCooldownRef, calls, probe>>

storeVars == <<gameState, isRunning, isPaused, level, isBossBattle, player,
               enemies, bullets, powerUps, particles, explosions, inputState,
               stats, lastFrameTime, lastSpawnTime>>

-----------------------------------------------------------------------------
(* Arithmetic helpers *)

Min(a, b) == IF a <= b THEN a ELSE b
Max(a, b) == IF a >= b THEN a ELSE b

\* F(v), with v computed before F is entered: the statements of a handler
\* run one after the other, each on the store the one before it left
Then(v, F(_)) == CHOOSE r \in {F(x) : x \in {v}} : TRUE

\* fixed-point unit of health, shield and damage
Q == 2 ^ 2

\* denominator of the scores handed to the level mathematics
LevelScale == 2 ^ 10

-----------------------------------------------------------------------------
(* levels.ts *)

EARLY_POINTS_PER_LEVEL == 1000

\* LATE_POINTS_MULTIPLIER is 1.5 = LateNum / LateDen
LateNum == 3
LateDen == 2

\* the while loop of calculateLevelFromScore; all amounts scaled by LevelScale
RECURSIVE lateLevelLoop(_, _, _, _)
lateLevelLoop(currentLevel, currentRequirement, totalUsed, remainingScore) ==
  IF totalUsed + currentRequirement <= remainingScore
  THEN lateLevelLoop(currentLevel + 1,
                     (currentRequirement * LateNum) \div LateDen,
                     totalUsed + currentRequirement,
                     remainingScore)
  ELSE currentLevel

\* mutant of calculateLevelFromScaled: 1000 points per level at every level
calculateLevelLinear(scoreS) ==
  (scoreS \div (EARLY_POINTS_PER_LEVEL * LevelScale)) + 1

\* calculateLevelFromScore on a score scaled by LevelScale
calculateLevelFromScaled(scoreS) ==
  IF scoreS < EARLY_POINTS_PER_LEVEL * 5 * LevelScale
  THEN (scoreS \div (EARLY_POINTS_PER_LEVEL * LevelScale)) + 1
  ELSE LET baseScore == EARLY_POINTS_PER_LEVEL * 5 * LevelScale
       IN  lateLevelLoop(5,
                         (EARLY_POINTS_PER_LEVEL * LevelScale * LateNum) \div LateDen,
                         0,
                         scoreS - baseScore)

\* calculateLevelFromScore on an integer score (the scores of the game are integers)
calculateLevelFromScore(score) == calculateLevelFromScaled(score * LevelScale)

\* the for loop of getScoreForNextLevel; amounts scaled by LevelScale
RECURSIVE nextLevelLoop(_, _, _, _)
nextLevelLoop(lvl, currentLevel, totalScore, requirement) ==
  IF lvl <= currentLevel
  THEN nextLevelLoop(lvl + 1, currentLevel, totalScore + requirement,
                     (requirement * LateNum) \div LateDen)
  ELSE totalScore

\* getScoreForNextLevel; the result is scaled by LevelScale
getScoreForNextLevel(currentLevel) ==
  IF currentLevel <= 5
  THEN currentLevel * EARLY_POINTS_PER_LEVEL * LevelScale
  ELSE nextLevelLoop(6, currentLevel,
                     EARLY_POINTS_PER_LEVEL * 5 * LevelScale,
                     (EARLY_POINTS_PER_LEVEL * LevelScale * LateNum) \div LateDen)

\* getSpawnRate
getSpawnRate(lvl) == Max(400, 2000 - (lvl - 1) * 50)

\* getMaxEnemiesForLevel
getMaxEnemiesForLevel(lvl) == Min(25, 8 + ((lvl - 1) \div 2) * 1)


\* getEnemyStats: <<health, points, shield>> per level, i.e. the values of
\* Math.floor(base * Math.pow(m, level - 1)) in IEEE double arithmetic
\* (m = 1.2 for health and shield, 1.15 for points), for the enemy types
\* the model spawns and the levels 1..20
EnemyStatsTable ==
  [ basic |->
      << <<25, 50, 0>>, <<30, 57, 0>>, <<36, 66, 0>>, <<43, 76, 0>>,
         <<51, 87, 0>>, <<62, 100, 0>>, <<74, 115, 0>>, <<89, 133, 0>>,
         <<107, 152, 0>>, <<128, 175, 0>>, <<154, 202, 0>>, <<185, 232, 0>>,
         <<222, 267, 0>>, <<267, 307, 0>>, <<320, 353, 0>>, <<385, 406, 0>>,
         <<462, 467, 0>>, <<554, 538, 0>>, <<665, 618, 0>>, <<798, 711, 0>> >>,
    shielded |->
      << <<50, 150, 25>>, <<60, 172, 30>>, <<72, 198, 36>>, <<86, 228, 43>>,
         <<103, 262, 51>>, <<124, 301, 62>>, <<149, 346, 74>>,
         <<179, 399, 89>>, <<214, 458, 107>>, <<257, 527, 128>>,
         <<309, 606, 154>>, <<371, 697, 185>>, <<445, 802, 222>>,
         <<534, 922, 267>>, <<641, 1061, 320>>, <<770, 1220, 385>>,
         <<924, 1403, 462>>, <<1109, 1614, 554>>, <<1331, 1856, 665>>,
         <<1597, 2134, 798>> >>,
    regenerator |->
      << <<60, 175, 0>>, <<72, 201, 0>>, <<86, 231, 0>>, <<103, 266, 0>>,
         <<124, 306, 0>>, <<149, 351, 0>>, <<179, 404, 0>>, <<214, 465, 0>>,
         <<257, 535, 0>>, <<309, 615, 0>>, <<371, 707, 0>>, <<445, 814, 0>>,
         <<534, 936, 0>>, <<641, 1076, 0>>, <<770, 1238, 0>>,
         <<924, 1423, 0>>, <<1109, 1637, 0>>, <<1331, 1883, 0>>,
         <<1597, 2165, 0>>, <<1916, 2490, 0>> >>,
    swarm |->
      << <<10, 25, 0>>, <<12, 28, 0>>, <<14, 33, 0>>, <<17, 38, 0>>,
         <<20, 43, 0>>, <<24, 50, 0>>, <<29, 57, 0>>, <<35, 66, 0>>,
         <<42, 76, 0>>, <<51, 87, 0>>, <<61, 101, 0>>, <<74, 116, 0>>,
         <<89, 133, 0>>, <<106, 153, 0>>, <<128, 176, 0>>, <<154, 203, 0>>,
         <<184, 233, 0>>, <<221, 269, 0>>, <<266, 309, 0>>, <<319, 355, 0>> >>,
    boss |->
      << <<500, 1000, 200>>, <<600, 1150, 240>>, <<720, 1322, 288>>,
         <<863, 1520, 345>>, <<1036, 1749, 414>>, <<1244, 2011, 497>>,
         <<1492, 2313, 597>>, <<1791, 2660, 716>>, <<2149, 3059, 859>>,
         <<2579, 3517, 1031>>, <<3095, 4045, 1238>>, <<3715, 4652, 1486>>,
         <<4458, 5350, 1783>>, <<5349, 6152, 2139>>, <<6419, 7075, 2567>>,
         <<7703, 8137, 3081>>, <<9244, 9357, 3697>>,
         <<11093, 10761, 4437>>, <<13311, 12375, 5324>>,
         <<15973, 14231, 6389>> >> ]

\* getEnemyStats (health and shield in units of 1/Q)
getEnemyStats(type, lvl) ==
  LET row == EnemyStatsTable[type][lvl]
  IN  [health |-> row[1] * Q, maxHealth |-> row[1] * Q, points |-> row[2],
       shield |-> row[3] * Q, maxShield |-> row[3] * Q]

\* getAvailableEnemyTypes; the three Math.random() rolls are inputs
getAvailableEnemyTypes(lvl, miniRoll, bossRoll, megaRoll) ==
  <<"basic">>
  \o (IF lvl >= 2 THEN <<"fast">> ELSE <<>>)
  \o (IF lvl >= 3 THEN <<"heavy">> ELSE <<>>)
  \o (IF lvl >= 4 THEN <<"shooter">> ELSE <<>>)
  \o (IF lvl >= 5 THEN <<"kamikaze">> ELSE <<>>)
  \o (IF lvl >= 6 THEN <<"shielded">> ELSE <<>>)
  \o (IF lvl >= 7 THEN <<"regenerator">> ELSE <<>>)
  \o (IF lvl >= 8 THEN <<"elite">> ELSE <<>>)
  \o (IF lvl >= 9 THEN <<"swarm">> ELSE <<>>)
  \o (IF lvl >= 10 /\ miniRoll THEN <<"mini-boss">> ELSE <<>>)
  \o (IF lvl >= 15 /\ bossRoll THEN <<"boss">> ELSE <<>>)
  \o (IF lvl >= 20 /\ megaRoll THEN <<"mega-boss">> ELSE <<>>)

-----------------------------------------------------------------------------
(* DEFAULT_CONFIG and DEFAULT_SETTINGS *)

CanvasWidth == 800
CanvasHeight == 600
PlayerSpeed == 300
EnemySpeed == 100
BulletSpeed == 400
MaxBulletsOnScreen == 100

ControlLeft == "ArrowLeft"
ControlRight == "ArrowRight"
ControlUp == "ArrowUp"
ControlDown == "ArrowDown"
ControlShoot == " "
ControlPause == "Escape"

\* createInitialPlayer (health in units of 1/Q)
createInitialPlayer ==
  [position |-> [x |-> 400, y |-> 550],
   size |-> [width |-> 40, height |-> 40],
   health |-> 100 * Q,
   maxHealth |-> 100 * Q,
   score |-> 0,
   lives |-> 3,
   weaponLevel |-> 1,
   shipLevel |-> 1,
   shipUpgradeTime |-> 0,
   invulnerable |-> FALSE,
   invulnerabilityTime |-> 0]

initialInputState ==
  [left |-> FALSE, right |-> FALSE, up |-> FALSE, down |-> FALSE,
   shoot |-> FALSE, pause |-> FALSE]

initialStats ==
  [totalEnemiesDestroyed |-> 0, totalBulletsFired |-> 0,
   totalPowerUpsCollected |-> 0, highestLevel |-> 0]

-----------------------------------------------------------------------------
(* services: isColliding *)

\* mutant of isColliding: rectangles that touch collide
isCollidingTouching(a, b) ==
  /\ a.position.x <= b.position.x + b.size.width
  /\ a.position.x + a.size.width >= b.position.x
  /\ a.position.y <= b.position.y + b.size.height
  /\ a.position.y + a.size.height >= b.position.y

\* isColliding of makeCollisionService
serviceIsColliding(a, b) ==
  /\ a.position.x < b.position.x + b.size.width
  /\ a.position.x + a.size.width > b.position.x
  /\ a.position.y < b.position.y + b.size.height
  /\ a.position.y + a.size.height > b.position.y

isColliding(a, b) ==
  /\ a.position.x < b.position.x + b.size.width
  /\ a.position.x + a.size.width > b.position.x
  /\ a.position.y < b.position.y + b.size.height
  /\ a.position.y + a.size.height > b.position.y

-----------------------------------------------------------------------------
(* The store.  An operator on the store takes the record s of its fields    *)
(* and returns the record after the call.  Besides the fields of the store  *)
(* s carries: now (Date.now()), rnd (the outcomes of Math.random() of this  *)
(* frame), idc (ids made so far in this frame), kills (power-up rolls made  *)
(* so far in this frame), spawned, shipPicked (whether the frame consumed   *)
(* the spawn and the ship outcomes) and calls (the history of the action).  *)

Merge(rec, updates) ==
  [k \in DOMAIN rec |-> IF k \in DOMAIN updates THEN updates[k] ELSE rec[k]]

Log(s, entry) == [s EXCEPT !.calls = Append(@, entry)]

\* the id `${prefix}-${Date.now()}-${Math.random()}-${i}`
RandomId(s, prefix, i) == <<prefix, s.now, s.idc, i>>

\* the id `${prefix}-${Date.now()}-${i}`, which has no random part
ClockId(s, prefix, i) == <<prefix, s.now, -1, i>>

\* one more Math.random() drawn for an id
Drawn(s) == [s EXCEPT !.idc = @ + 1]

updatePlayer(s, updates) == [s EXCEPT !.player = Merge(@, updates)]

updateStats(s, updates) == [s EXCEPT !.stats = Merge(@, updates)]

incrementStat(s, stat, amount) == [s EXCEPT !.stats[stat] = @ + amount]

addEnemy(s, enemy) == [s EXCEPT !.enemies = Append(@, enemy)]

removeEnemy(s, id) ==
  [s EXCEPT !.enemies = SelectSeq(@, LAMBDA e : e.id # id)]

addBullet(s, bullet) == [s EXCEPT !.bullets = Append(@, bullet)]

removeBullet(s, id) ==
  [s EXCEPT !.bullets = SelectSeq(@, LAMBDA b : b.id # id)]

addPowerUp(s, powerUp) == [s EXCEPT !.powerUps = Append(@, powerUp)]

removePowerUp(s, id) ==
  [s EXCEPT !.powerUps = SelectSeq(@, LAMBDA p : p.id # id)]

addParticle(s, particle) == [s EXCEPT !.particles = Append(@, particle)]

addExplosion(s, explosion) == [s EXCEPT !.explosions = Append(@, explosion)]

\* the fields of the store, without the bookkeeping of the frame
storeFields(s) ==
  [gameState |-> s.gameState, isRunning |-> s.isRunning, isPaused |-> s.isPaused,
   level |-> s.level, isBossBattle |-> s.isBossBattle, player |-> s.player,
   enemies |-> s.enemies, bullets |-> s.bullets, powerUps |-> s.powerUps,
   particles |-> s.particles, explosions |-> s.explosions,
   inputState |-> s.inputState, stats |-> s.stats,
   lastFrameTime |-> s.lastFrameTime, lastSpawnTime |-> s.lastSpawnTime]

\* the player, the entities and the level of a game
gameFields(s) ==
  [level |-> s.level, player |-> s.player,
   enemies |-> s.enemies, bullets |-> s.bullets, powerUps |-> s.powerUps,
   particles |-> s.particles, explosions |-> s.explosions]

bossEnemiesOf(enemySeq) == SelectSeq(enemySeq, LAMBDA e : e.type = "boss")

endGame(s) == [s EXCEPT !.gameState = "gameOver", !.isRunning = FALSE]

\* mutant of levelAdvancement: a boss battle ends on the next check, whether
\* or not a boss is left
levelAdvancementUngated(s) ==
  LET lvl == s.level
      nextLevel == calculateLevelFromScore(s.player.score)
  IN  IF s.isBossBattle
      THEN updateStats([s EXCEPT !.level = lvl + 1, !.isBossBattle = FALSE],
                       [highestLevel |-> Max(s.stats.highestLevel, lvl + 1)])
      ELSE IF nextLevel > lvl
           THEN updateStats(
                  IF nextLevel % 10 = 0
                  THEN [s EXCEPT !.level = nextLevel, !.isBossBattle = TRUE]
                  ELSE [s EXCEPT !.level = nextLevel],
                  [highestLevel |-> Max(s.stats.highestLevel, nextLevel)])
           ELSE s

\* mutant of levelAdvancement: the level after a defeated boss is still a
\* boss battle
levelAdvancementKeepBattle(s) ==
  LET lvl == s.level
      nextLevel == calculateLevelFromScore(s.player.score)
  IN  IF s.isBossBattle
      THEN IF Len(bossEnemiesOf(s.enemies)) = 0
           THEN updateStats([s EXCEPT !.level = lvl + 1],
                            [highestLevel |-> Max(s.stats.highestLevel, lvl + 1)])
           ELSE s
      ELSE IF nextLevel > lvl
           THEN updateStats(
                  IF nextLevel % 10 = 0
                  THEN [s EXCEPT !.level = nextLevel, !.isBossBattle = TRUE]
                  ELSE [s EXCEPT !.level = nextLevel],
                  [highestLevel |-> Max(s.stats.highestLevel, nextLevel)])
           ELSE s

\* checkLevelAdvancement, without the history entry
levelAdvancement(s) ==
  LET lvl == s.level
      nextLevel == calculateLevelFromScore(s.player.score)
  IN  IF s.isBossBattle
      THEN IF Len(bossEnemiesOf(s.enemies)) = 0
           THEN updateStats([s EXCEPT !.level = lvl + 1, !.isBossBattle = FALSE],
                            [highestLevel |-> Max(s.stats.highestLevel, lvl + 1)])
           ELSE s
      ELSE IF nextLevel > lvl
           THEN updateStats(
                  IF nextLevel % 10 = 0
                  THEN [s EXCEPT !.level = nextLevel, !.isBossBattle = TRUE]
                  ELSE [s EXCEPT !.level = nextLevel],
                  [highestLevel |-> Max(s.stats.highestLevel, nextLevel)])
           ELSE s

checkLevelAdvancement(s) ==
  Then(levelAdvancement(s), LAMBDA r :
    Log(r, [op |-> "checkLevelAdvancement",
            preLevel |-> s.level, preBossBattle |-> s.isBossBattle,
            preBosses |-> Len(bossEnemiesOf(s.enemies)),
            score |-> s.player.score,
            postLevel |-> r.level, postBossBattle |-> r.isBossBattle]))

\* mutant of takeDamage: the ship tier survives the loss of a life
takeDamageKeepShip(s, damage) ==
  LET p == s.player
      newHealth == Max(0, p.health - damage)
      s1 == updatePlayer(s, [health |-> newHealth])
  IN  IF newHealth <= 0
      THEN IF p.lives > 1
           THEN updatePlayer(s1, [lives |-> p.lives - 1,
                                  health |-> p.maxHealth,
                                  invulnerable |-> TRUE,
                                  invulnerabilityTime |-> 3000])
           ELSE endGame(s1)
      ELSE s1

\* playerTakeDamage, without the history entry
takeDamage(s, damage) ==
  LET p == s.player
      newHealth == Max(0, p.health - damage)
      s1 == updatePlayer(s, [health |-> newHealth])
  IN  IF newHealth <= 0
      THEN IF p.lives > 1
           THEN updatePlayer(s1, [lives |-> p.lives - 1,
                                  health |-> p.maxHealth,
                                  invulnerable |-> TRUE,
                                  invulnerabilityTime |-> 3000,
                                  shipLevel |-> 1,
                                  shipUpgradeTime |-> 0])
           ELSE endGame(s1)
      ELSE s1

playerTakeDamage(s, damage) ==
  Then(takeDamage(s, damage), LAMBDA r :
    Log(r, [op |-> "playerTakeDamage", damage |-> damage,
            prePlayer |-> s.player, preGameState |-> s.gameState,
            preRunning |-> s.isRunning,
            postPlayer |-> r.player, postGameState |-> r.gameState,
            postRunning |-> r.isRunning]))

-----------------------------------------------------------------------------
(* Player actions *)

movePlayer(s, direction, deltaTime) ==
  LET speed == (PlayerSpeed * deltaTime) \div 1000
      p == s.player
      newX == IF direction = "left"
              THEN Max(0, p.position.x - speed)
              ELSE Min(CanvasWidth - p.size.width, p.position.x + speed)
  IN  [s EXCEPT !.player.position.x = newX]

\* the bullet records of playerShoot; velocities in pixels per second,
\* sin(0.3) = 0.29552 and cos(0.3) = 0.95534 rounded to whole pixels
basicBullet(s, baseDamage) ==
  [id |-> RandomId(s, "bullet", 0),
   position |-> [x |-> s.player.position.x + s.player.size.width \div 2 - 2,
                 y |-> s.player.position.y],
   velocity |-> [x |-> 0, y |-> -BulletSpeed],
   size |-> [width |-> 4, height |-> 8],
   damage |-> baseDamage, owner |-> "player", bulletType |-> "basic",
   piercing |-> FALSE]

multiShotBullet(s, baseDamage, i) ==
  [id |-> RandomId(s, "bullet", i),
   position |-> [x |-> s.player.position.x + s.player.size.width \div 2 - 2,
                 y |-> s.player.position.y],
   velocity |-> [x |-> (i - 1) * ((29552 * BulletSpeed) \div 200000),
                 y |-> -(((IF i = 1 THEN 100000 ELSE 95534) * BulletSpeed) \div 100000)],
   size |-> [width |-> 3, height |-> 6],
   damage |-> (baseDamage * 4) \div 5, owner |-> "player",
   bulletType |-> "multi-shot", piercing |-> FALSE]

laserBullet(s, baseDamage) ==
  [id |-> RandomId(s, "laser", 0),
   position |-> [x |-> s.player.position.x + s.player.size.width \div 2 - 1,
                 y |-> s.player.position.y],
   velocity |-> [x |-> 0, y |-> -((BulletSpeed * 3) \div 2)],
   size |-> [width |-> 2, height |-> 30],
   damage |-> (baseDamage * 3) \div 2, owner |-> "player",
   bulletType |-> "laser", piercing |-> TRUE]

dualLaserBullet(s, baseDamage, i) ==
  [id |-> RandomId(s, "dual-laser", i),
   position |-> [x |-> s.player.position.x + s.player.size.width \div 2 - 1
                        + (IF i = 0 THEN -8 ELSE 8),
                 y |-> s.player.position.y],
   velocity |-> [x |-> 0, y |-> -((BulletSpeed * 9) \div 5)],
   size |-> [width |-> 3, height |-> 35],
   damage |-> (baseDamage * 9) \div 5, owner |-> "player",
   bulletType |-> "laser", piercing |-> TRUE]

\* mutant of firePattern: the three bullets of the multi-shot count as one
firePatternCountsShots(s, baseDamage) ==
  LET lvl == s.player.shipLevel
      multi0 == Drawn(addBullet(s, multiShotBullet(s, baseDamage, 0)))
      multi1 == Drawn(addBullet(multi0, multiShotBullet(multi0, baseDamage, 1)))
      multi2 == Drawn(addBullet(multi1, multiShotBullet(multi1, baseDamage, 2)))
      dual0 == Drawn(addBullet(s, dualLaserBullet(s, baseDamage, 0)))
      dual1 == Drawn(addBullet(dual0, dualLaserBullet(dual0, baseDamage, 1)))
  IN  CASE lvl = 2 -> incrementStat(multi2, "totalBulletsFired", 1)
        [] lvl = 3 -> incrementStat(Drawn(addBullet(s, laserBullet(s, baseDamage))),
                                    "totalBulletsFired", 1)
        [] lvl = 4 -> incrementStat(dual1, "totalBulletsFired", 2)
        [] OTHER -> incrementStat(Drawn(addBullet(s, basicBullet(s, baseDamage))),
                                  "totalBulletsFired", 1)

\* the firing pattern of playerShoot, by ship level
firePattern(s, baseDamage) ==
  LET lvl == s.player.shipLevel
      multi0 == Drawn(addBullet(s, multiShotBullet(s, baseDamage, 0)))
      multi1 == Drawn(addBullet(multi0, multiShotBullet(multi0, baseDamage, 1)))
      multi2 == Drawn(addBullet(multi1, multiShotBullet(multi1, baseDamage, 2)))
      dual0 == Drawn(addBullet(s, dualLaserBullet(s, baseDamage, 0)))
      dual1 == Drawn(addBullet(dual0, dualLaserBullet(dual0, baseDamage, 1)))
  IN  CASE lvl = 2 -> incrementStat(multi2, "totalBulletsFired", 3)
        [] lvl = 3 -> incrementStat(Drawn(addBullet(s, laserBullet(s, baseDamage))),
                                    "totalBulletsFired", 1)
        [] lvl = 4 -> incrementStat(dual1, "totalBulletsFired", 2)
        [] OTHER -> incrementStat(Drawn(addBullet(s, basicBullet(s, baseDamage))),
                                  "totalBulletsFired", 1)

\* playerShoot, without the history entry
shoot(s) ==
  LET playerBullets == SelectSeq(s.bullets, LAMBDA b : b.owner = "player")
      cooldown == IF s.player.shipLevel >= 3 THEN 100 ELSE 200
      baseDamage == 25 * s.player.weaponLevel * Q
  IN  IF Len(playerBullets) >= MaxBulletsOnScreen THEN s
      ELSE IF s.now - s.lastFrameTime < cooldown THEN s
      ELSE [firePattern(s, baseDamage) EXCEPT !.lastFrameTime = s.now]

\* the history keeps the bullets the call has added; a call that returns
\* early leaves the store as it was, one that fires sets lastFrameTime
playerShoot(s) ==
  Then(shoot(s), LAMBDA r :
    Log(r, [op |-> "playerShoot", fired |-> r # s,
            shipLevel |-> s.player.shipLevel,
            created |-> SubSeq(r.bullets, Len(s.bullets) + 1, Len(r.bullets)),
            preFired |-> s.stats.totalBulletsFired,
            postFired |-> r.stats.totalBulletsFired]))

-----------------------------------------------------------------------------
(* Entity management *)

enemySize(type) ==
  CASE type \in {"boss", "mini-boss", "mega-boss"} -> [width |-> 80, height |-> 80]
    [] type = "heavy" -> [width |-> 45, height |-> 45]
    [] type = "kamikaze" -> [width |-> 30, height |-> 30]
    [] type = "shielded" -> [width |-> 40, height |-> 40]
    [] type = "swarm" -> [width |-> 25, height |-> 25]
    [] OTHER -> [width |-> 35, height |-> 35]

\* createEnemy(type, x, y); the random default of x is the argument x of
\* the caller.  The velocity the code initialises from stats.speed is
\* replaced by updateEnemies before anything reads it; it starts as 0 here.
createEnemy(s, type, x, y) ==
  Then(getEnemyStats(type, s.level), LAMBDA st :
    [id |-> RandomId(s, "enemy", 0),
     position |-> [x |-> x, y |-> y],
     velocity |-> [x |-> 0, y |-> 0],
     size |-> enemySize(type),
     health |-> st.health,
     maxHealth |-> st.health,
     type |-> type,
     points |-> st.points,
     level |-> s.level,
     shield |-> st.shield,
     maxShield |-> st.shield])

\* Math.sqrt rounded down to a whole pixel
Sqrt(n) == CHOOSE r \in 0..1500 : r * r <= n /\ n < (r + 1) * (r + 1)

\* the velocity updateEnemies gives a boss; time = Date.now() * 0.001,
\* phase = Math.floor(time / 5) % 4, and sin/cos of the time is rnd.wave
bossVelocity(s, enemy, speed) ==
  LET phase == (s.now \div 5000) % 4
      wave == s.rnd.wave
      dx == s.player.position.x - enemy.position.x
      dy == s.player.position.y - enemy.position.y
      distance == Sqrt(dx * dx + dy * dy)
  IN  CASE phase = 0 -> [x |-> (wave * speed) \div 2, y |-> (speed * 3) \div 10]
        [] phase = 1 -> [x |-> (wave * speed * 4) \div 5, y |-> speed \div 5]
        [] phase = 2 -> IF distance > 0
                        THEN [x |-> (dx * speed * 2) \div (5 * distance),
                              y |-> (dy * speed * 2) \div (5 * distance)]
                        ELSE enemy.velocity
        [] OTHER -> [x |-> (wave * speed * 3) \div 10, y |-> -(speed \div 5)]

\* the map function of updateEnemies.  The kamikaze branch is left out:
\* the model spawns no kamikaze (ModelTypes).
movedEnemy(s, enemy, deltaTime) ==
  LET speed == (EnemySpeed * deltaTime) \div 1000
      wave == s.rnd.wave
  IN  CASE enemy.type = "shielded" ->
             LET newShield == IF enemy.shield < enemy.maxShield
                              THEN Min(enemy.maxShield,
                                       enemy.shield + (Q * deltaTime) \div 2000)
                              ELSE enemy.shield
                 newVelocity == [x |-> (wave * speed) \div 2, y |-> speed]
             IN  [enemy EXCEPT !.velocity = newVelocity,
                               !.shield = newShield,
                               !.position = [x |-> enemy.position.x + newVelocity.x,
                                             y |-> enemy.position.y + newVelocity.y]]
        [] enemy.type = "regenerator" ->
             LET newHealth == IF enemy.health < enemy.maxHealth
                              THEN Min(enemy.maxHealth,
                                       enemy.health + (5 * Q * deltaTime) \div 1000)
                              ELSE enemy.health
                 newVelocity == [x |-> (wave * speed * 4) \div 5,
                                 y |-> (speed * 7) \div 10]
             IN  [enemy EXCEPT !.velocity = newVelocity,
                               !.health = newHealth,
                               !.position = [x |-> enemy.position.x + newVelocity.x,
                                             y |-> enemy.position.y + newVelocity.y]]
        [] OTHER ->
             LET newVelocity == IF enemy.type = "boss"
                                THEN bossVelocity(s, enemy, speed)
                                ELSE [x |-> 0, y |-> speed]
             IN  [enemy EXCEPT !.velocity = newVelocity,
                               !.position = [x |-> enemy.position.x + newVelocity.x,
                                             y |-> enemy.position.y + newVelocity.y]]

updateEnemies(s, deltaTime) ==
  LET moved == [i \in 1..Len(s.enemies) |-> movedEnemy(s, s.enemies[i], deltaTime)]
  IN  [s EXCEPT !.enemies =
         SelectSeq(moved, LAMBDA e : e.position.y < CanvasHeight + 50)]

updateBullets(s, deltaTime) ==
  LET moved == [i \in 1..Len(s.bullets) |->
                  [s.bullets[i] EXCEPT
                     !.position = [x |-> @.x + (s.bullets[i].velocity.x * deltaTime) \div 1000,
                                   y |-> @.y + (s.bullets[i].velocity.y * deltaTime) \div 1000]]]
  IN  [s EXCEPT !.bullets =
         SelectSeq(moved, LAMBDA b : /\ b.position.y > -50
                                     /\ b.position.y < CanvasHeight + 50
                                     /\ b.position.x > -50
                                     /\ b.position.x < CanvasWidth + 50)]

updatePowerUps(s, deltaTime) ==
  LET moved == [i \in 1..Len(s.powerUps) |->
                  [s.powerUps[i] EXCEPT
                     !.position = [x |-> @.x + (s.powerUps[i].velocity.x * deltaTime) \div 1000,
                                   y |-> @.y + (s.powerUps[i].velocity.y * deltaTime) \div 1000],
                     !.duration = @ - deltaTime]]
  IN  [s EXCEPT !.powerUps =
         SelectSeq(moved, LAMBDA p : /\ p.position.y < CanvasHeight + 50
                                     /\ p.duration > 0)]

\* mutant of updateParticles: the lifetime of a particle stands still
updateParticlesFrozen(s, deltaTime) ==
  [s EXCEPT !.particles =
     SelectSeq(s.particles, LAMBDA p : p.lifetime < p.maxLifetime)]

\* alpha is derived from lifetime and maxLifetime and is not stored here
updateParticles(s, deltaTime) ==
  LET aged == [i \in 1..Len(s.particles) |->
                 [s.particles[i] EXCEPT !.lifetime = @ + deltaTime]]
  IN  [s EXCEPT !.particles =
         SelectSeq(aged, LAMBDA p : p.lifetime < p.maxLifetime)]

updateExplosions(s, deltaTime) ==
  LET aged == [i \in 1..Len(s.explosions) |->
                 LET e == s.explosions[i]
                     newLifetime == e.lifetime + deltaTime
                 IN  [e EXCEPT !.lifetime = newLifetime,
                               !.currentFrame = (newLifetime \div e.frameTime) % e.totalFrames,
                               !.isActive = newLifetime < e.totalFrames * e.frameTime]]
  IN  [s EXCEPT !.explosions = SelectSeq(aged, LAMBDA e : e.isActive)]

collectParticle(s, powerUp, i) ==
  [id |-> ClockId(s, "collect-particle", i),
   position |-> [x |-> powerUp.position.x + powerUp.size.width \div 2,
                 y |-> powerUp.position.y + powerUp.size.height \div 2],
   lifetime |-> 0,
   maxLifetime |-> 500]

\* the loop for (i = 0; i < 4; i++) addParticle(...)
addCollectParticles(s, powerUp) ==
  [s EXCEPT !.particles = @ \o [k \in 1..4 |-> collectParticle(s, powerUp, k - 1)]]

collectPowerUp(s, id) ==
  LET found == SelectSeq(s.powerUps, LAMBDA p : p.id = id)
  IN  IF Len(found) = 0 THEN s
      ELSE incrementStat(removePowerUp(addCollectParticles(s, found[1]), id),
                         "totalPowerUpsCollected", 1)

-----------------------------------------------------------------------------
(* checkCollisions.  player, enemies, bullets and powerUps are read once at *)
(* the start (the arguments p0, enemies0, ...); every get() inside reads    *)
(* the store as it is then (s).                                             *)

\* shield first, the rest to health: the new shield and health of an enemy
\* with the given shield and health hit with the given damage
\* mutant of applyDamage: a shield that breaks takes the whole hit
applyDamageNoCarry(damage, shield, health) ==
  LET damageDealt == IF shield > 0 THEN 0 ELSE damage
      newShield == IF shield > 0
                   THEN (IF shield >= damage THEN shield - damage ELSE 0)
                   ELSE shield
      newHealth == IF damageDealt > 0 THEN health - damageDealt ELSE health
  IN  [shield |-> newShield, health |-> newHealth]

applyDamage(damage, shield, health) ==
  LET damageDealt == IF shield > 0
                     THEN (IF shield >= damage THEN 0 ELSE damage - shield)
                     ELSE damage
      newShield == IF shield > 0
                   THEN (IF shield >= damage THEN shield - damage ELSE 0)
                   ELSE shield
      newHealth == IF damageDealt > 0 THEN health - damageDealt ELSE health
  IN  [shield |-> newShield, health |-> newHealth]

\* the two enemies a destroyed regenerator splits into
RECURSIVE splitRegenerator(_, _, _)
splitRegenerator(s, enemy, i) ==
  IF i < 2
  THEN LET baseEnemy == createEnemy(s, "swarm",
                                    enemy.position.x + (i * 20) - 10,
                                    enemy.position.y + 20)
           reduced == ((enemy.health * 3) \div (10 * Q)) * Q
           splitEnemy == [baseEnemy EXCEPT
                            !.health = reduced,
                            !.maxHealth = reduced,
                            !.points = enemy.points \div 5,
                            !.size = [width |-> 20, height |-> 20]]
       IN  splitRegenerator(addEnemy(Drawn(s), splitEnemy), enemy, i + 1)
  ELSE s

\* the loop for (i = 0; i < 5; i++) addParticle(...); every id draws a
\* random number
addDebris(s, enemy) ==
  [s EXCEPT !.particles = @ \o
              [k \in 1..5 |->
                 [id |-> RandomId([s EXCEPT !.idc = @ + k - 1], "particle", k - 1),
                  position |-> [x |-> enemy.position.x + enemy.size.width \div 2,
                                y |-> enemy.position.y + enemy.size.height \div 2],
                  lifetime |-> 0,
                  maxLifetime |-> 800]],
            !.idc = @ + 5]

\* the roll Math.random() < powerUpChance and the choice of the type are
\* the next entry of rnd.drops ("none": no power-up)
dropPowerUp(s, enemy) ==
  LET k == s.kills + 1
      drop == IF k <= Len(s.rnd.drops) THEN s.rnd.drops[k] ELSE "none"
      s1 == [s EXCEPT !.kills = k]
  IN  IF drop = "none" THEN s1
      ELSE Drawn(addPowerUp(s1,
             [id |-> RandomId(s1, "powerup", 0),
              position |-> [x |-> enemy.position.x + enemy.size.width \div 2 - 15,
                            y |-> enemy.position.y + enemy.size.height \div 2 - 15],
              velocity |-> [x |-> 0, y |-> 50],
              size |-> [width |-> 30, height |-> 30],
              type |-> drop,
              duration |-> 10000]))

\* mutant of destroyEnemy: the score becomes the points of the enemy
destroyEnemyForPoints(s, p0, enemy) ==
  Then(removeEnemy(s, enemy.id), LAMBDA s1 :
  Then(updatePlayer(s1, [score |-> enemy.points]), LAMBDA s2 :
  Then(incrementStat(s2, "totalEnemiesDestroyed", 1), LAMBDA s3 :
  Then(checkLevelAdvancement(s3), LAMBDA s4 :
  Then(IF enemy.type = "regenerator" THEN splitRegenerator(s4, enemy, 0) ELSE s4,
       LAMBDA s5 :
  Then(Drawn(addExplosion(s5,
         [id |-> RandomId(s5, "explosion", 0),
          position |-> [x |-> enemy.position.x + enemy.size.width \div 2 - 32,
                        y |-> enemy.position.y + enemy.size.height \div 2 - 32],
          currentFrame |-> 0, totalFrames |-> 7, frameTime |-> 80,
          lifetime |-> 0, isActive |-> TRUE])), LAMBDA s6 :
  Then(dropPowerUp(s6, enemy), LAMBDA s7 : addDebris(s7, enemy))))))))

\* the branch newHealth <= 0 of the bullet loop
destroyEnemy(s, p0, enemy) ==
  Then(removeEnemy(s, enemy.id), LAMBDA s1 :
  Then(updatePlayer(s1, [score |-> p0.score + enemy.points]), LAMBDA s2 :
  Then(incrementStat(s2, "totalEnemiesDestroyed", 1), LAMBDA s3 :
  Then(checkLevelAdvancement(s3), LAMBDA s4 :
  Then(IF enemy.type = "regenerator" THEN splitRegenerator(s4, enemy, 0) ELSE s4,
       LAMBDA s5 :
  Then(Drawn(addExplosion(s5,
         [id |-> RandomId(s5, "explosion", 0),
          position |-> [x |-> enemy.position.x + enemy.size.width \div 2 - 32,
                        y |-> enemy.position.y + enemy.size.height \div 2 - 32],
          currentFrame |-> 0, totalFrames |-> 7, frameTime |-> 80,
          lifetime |-> 0, isActive |-> TRUE])), LAMBDA s6 :
  Then(dropPowerUp(s6, enemy), LAMBDA s7 : addDebris(s7, enemy))))))))

\* the body of the bullet loop for a colliding pair
bulletHitsEnemy(s, p0, bullet, enemy) ==
  LET s1 == IF ~bullet.piercing THEN removeBullet(s, bullet.id) ELSE s
      after == applyDamage(bullet.damage, enemy.shield, enemy.health)
      stored == SelectSeq(s.enemies, LAMBDA e : e.id = enemy.id)
  IN  Then(IF after.health <= 0
           THEN destroyEnemy(s1, p0, enemy)
           ELSE [s1 EXCEPT !.enemies =
                   [i \in 1..Len(s1.enemies) |->
                      IF s1.enemies[i].id = enemy.id
                      THEN [s1.enemies[i] EXCEPT !.health = after.health,
                                                 !.shield = after.shield]
                      ELSE s1.enemies[i]]], LAMBDA r :
      Log(r, [op |-> "hit", bullet |-> bullet.id, enemy |-> enemy.id,
              type |-> enemy.type, damage |-> bullet.damage,
              piercing |-> bullet.piercing,
              shield |-> enemy.shield, health |-> enemy.health,
              points |-> enemy.points,
              bulletInStore |-> \E i \in 1..Len(s.bullets) : s.bullets[i].id = bullet.id,
              enemyInStore |-> Len(stored) > 0,
              storedShield |-> IF Len(stored) > 0 THEN stored[1].shield ELSE -1,
              storedHealth |-> IF Len(stored) > 0 THEN stored[1].health ELSE -1,
              destroyed |-> after.health <= 0,
              newShield |-> after.shield, newHealth |-> after.health,
              preScore |-> s.player.score, postScore |-> r.player.score,
              preDestroyed |-> s.stats.totalEnemiesDestroyed,
              postDestroyed |-> r.stats.totalEnemiesDestroyed,
              preExplosions |-> Len(s.explosions),
              postExplosions |-> Len(r.explosions),
              endInStore |-> \E i \in 1..Len(r.enemies) : r.enemies[i].id = enemy.id,
              endShield |-> LET left == SelectSeq(r.enemies, LAMBDA e : e.id = enemy.id)
                            IN  IF Len(left) > 0 THEN left[1].shield ELSE -1,
              endHealth |-> LET left == SelectSeq(r.enemies, LAMBDA e : e.id = enemy.id)
                            IN  IF Len(left) > 0 THEN left[1].health ELSE -1]))

\* The loops of checkCollisions test positions read at the start, so which
\* pairs collide is settled before the first of them is handled: the loops
\* below run over the colliding pairs, in the order of the forEach loops.

\* <<bullet, enemy>> for every colliding pair, bullet by bullet
collidingPairs(playerBullets, enemies0) ==
  LET n == Len(enemies0)
      pairs == [k \in 1 .. Len(playerBullets) * n |->
                  <<playerBullets[((k - 1) \div n) + 1], enemies0[((k - 1) % n) + 1]>>]
  IN  SelectSeq(pairs, LAMBDA pr : isColliding(pr[1], pr[2]))

RECURSIVE hitLoop(_, _, _, _)
hitLoop(s, p0, pairs, i) ==
  IF i > Len(pairs) THEN s
  ELSE Then(bulletHitsEnemy(s, p0, pairs[i][1], pairs[i][2]),
            LAMBDA t : hitLoop(t, p0, pairs, i + 1))

playerBulletsVsEnemies(s, p0, playerBullets, enemies0) ==
  hitLoop(s, p0, collidingPairs(playerBullets, enemies0), 1)

RECURSIVE enemyBulletLoop(_, _, _)
enemyBulletLoop(s, hits, i) ==
  IF i > Len(hits) THEN s
  ELSE Then(playerTakeDamage(removeBullet(s, hits[i].id), hits[i].damage),
            LAMBDA t : enemyBulletLoop(t, hits, i + 1))

enemyBulletsVsPlayer(s, p0, enemyBullets) ==
  enemyBulletLoop(s, SelectSeq(enemyBullets,
                       LAMBDA b : isColliding(b, p0) /\ ~p0.invulnerable), 1)

RECURSIVE contactLoop(_, _, _)
contactLoop(s, hits, i) ==
  IF i > Len(hits) THEN s
  ELSE Then(playerTakeDamage(removeEnemy(s, hits[i].id), 50 * Q),
            LAMBDA t : contactLoop(t, hits, i + 1))

enemiesVsPlayer(s, p0, enemies0) ==
  contactLoop(s, SelectSeq(enemies0,
                   LAMBDA e : isColliding(e, p0) /\ ~p0.invulnerable), 1)

\* the loop for (i = 0; i < 8; i++) addParticle(...)
addUpgradeParticles(s, p0) ==
  [s EXCEPT !.particles = @ \o
              [k \in 1..8 |->
                 [id |-> ClockId(s, "ship-upgrade-particle", k - 1),
                  position |-> [x |-> p0.position.x + p0.size.width \div 2,
                                y |-> p0.position.y + p0.size.height \div 2],
                  lifetime |-> 0,
                  maxLifetime |-> 1000]]]

\* mutant of powerUpEffect: the health power-up is not limited to maxHealth
powerUpEffectUnclamped(s, p0, type) ==
  CASE type = "health" ->
         updatePlayer(s, [health |-> p0.health + 25 * Q])
    [] type = "weapon" ->
         updatePlayer(s, [weaponLevel |-> Min(10, p0.weaponLevel + 1)])
    [] type = "shield" ->
         updatePlayer(s, [invulnerable |-> TRUE, invulnerabilityTime |-> 5000])
    [] type = "ship" ->
         addUpgradeParticles(
           [updatePlayer(s, [shipLevel |-> s.rnd.shipLevel,
                             shipUpgradeTime |-> s.rnd.shipDuration])
              EXCEPT !.shipPicked = TRUE],
           p0)
    [] OTHER -> s

\* the effect of a collected power-up; p0 is the player read at the start
\* of checkCollisions
powerUpEffect(s, p0, type) ==
  CASE type = "health" ->
         updatePlayer(s, [health |-> Min(p0.maxHealth, p0.health + 25 * Q)])
    [] type = "weapon" ->
         updatePlayer(s, [weaponLevel |-> Min(10, p0.weaponLevel + 1)])
    [] type = "shield" ->
         updatePlayer(s, [invulnerable |-> TRUE, invulnerabilityTime |-> 5000])
    [] type = "ship" ->
         addUpgradeParticles(
           [updatePlayer(s, [shipLevel |-> s.rnd.shipLevel,
                             shipUpgradeTime |-> s.rnd.shipDuration])
              EXCEPT !.shipPicked = TRUE],
           p0)
    [] OTHER -> s

\* the body of the power-up loop for a power-up the player touches
playerTakesPowerUp(s, p0, powerUp) ==
  Then(collectPowerUp(s, powerUp.id), LAMBDA s1 :
  Then(powerUpEffect(s1, p0, powerUp.type), LAMBDA r :
    Log(r, [op |-> "powerUp", type |-> powerUp.type,
            prePlayer |-> s.player, postPlayer |-> r.player])))

RECURSIVE powerUpLoop(_, _, _, _)
powerUpLoop(s, p0, hits, i) ==
  IF i > Len(hits) THEN s
  ELSE Then(playerTakesPowerUp(s, p0, hits[i]),
            LAMBDA t : powerUpLoop(t, p0, hits, i + 1))

playerVsPowerUps(s, p0, powerUps0) ==
  powerUpLoop(s, p0, SelectSeq(powerUps0, LAMBDA pu : isColliding(pu, p0)), 1)

checkCollisions(s) ==
  LET p0 == s.player
      enemies0 == s.enemies
      bullets0 == s.bullets
      powerUps0 == s.powerUps
  IN  Then(playerBulletsVsEnemies(s, p0,
             SelectSeq(bullets0, LAMBDA b : b.owner = "player"), enemies0),
           LAMBDA s1 :
      Then(enemyBulletsVsPlayer(s1, p0,
             SelectSeq(bullets0, LAMBDA b : b.owner = "enemy")),
           LAMBDA s2 :
      Then(enemiesVsPlayer(s2, p0, enemies0),
           LAMBDA s3 : playerVsPowerUps(s3, p0, powerUps0))))

\* spawnEnemies.  Math.random() of getAvailableEnemyTypes is rnd.miniRoll,
\* rnd.bossRoll, rnd.megaRoll; Math.floor(Math.random() * length) + 1 is
\* rnd.spawnIndex; the random x of createEnemy is rnd.spawnX.
spawnEnemies(s) ==
  IF s.isBossBattle
  THEN IF Len(bossEnemiesOf(s.enemies)) = 0
       THEN addEnemy(Drawn(s), createEnemy(s, "boss", CanvasWidth \div 2 - 40, -80))
       ELSE s
  ELSE IF Len(s.enemies) >= getMaxEnemiesForLevel(s.level) THEN s
  ELSE IF s.lastSpawnTime = 0 \/ s.now - s.lastSpawnTime > getSpawnRate(s.level)
       THEN LET availableTypes == getAvailableEnemyTypes(s.level, s.rnd.miniRoll,
                                                         s.rnd.bossRoll, s.rnd.megaRoll)
                enemyType == availableTypes[s.rnd.spawnIndex]
                enemy == createEnemy(s, enemyType, s.rnd.spawnX, -50)
            IN  [addEnemy(Drawn(s), enemy) EXCEPT !.lastSpawnTime = s.now,
                                                  !.spawned = TRUE]
       ELSE s

\* the two timers at the start of updateGameLogic; p0 is state.player
\* mutant of playerTimers: a timer that reaches 0 leaves invulnerable and
\* shipLevel as they are
playerTimersKeepFlags(s, deltaTime) ==
  LET p0 == s.player
  IN  updatePlayer(s, [invulnerabilityTime |-> Max(0, p0.invulnerabilityTime - deltaTime),
                       shipUpgradeTime |-> Max(0, p0.shipUpgradeTime - deltaTime)])

\* mutant of playerTimers: the timers are not clamped at 0 and a flag is
\* only cleared by a timer that lands on 0 exactly
playerTimersUnclamped(s, deltaTime) ==
  LET p0 == s.player
      newInvulnerabilityTime == p0.invulnerabilityTime - deltaTime
      s1 == IF p0.invulnerabilityTime > 0
            THEN IF newInvulnerabilityTime = 0
                 THEN updatePlayer(s, [invulnerable |-> FALSE,
                                       invulnerabilityTime |-> 0])
                 ELSE updatePlayer(s, [invulnerabilityTime |-> newInvulnerabilityTime])
            ELSE s
      newShipUpgradeTime == p0.shipUpgradeTime - deltaTime
  IN  IF p0.shipUpgradeTime > 0
      THEN IF newShipUpgradeTime = 0
           THEN updatePlayer(s1, [shipLevel |-> 1, shipUpgradeTime |-> 0])
           ELSE updatePlayer(s1, [shipUpgradeTime |-> newShipUpgradeTime])
      ELSE s1

playerTimers(s, deltaTime) ==
  LET p0 == s.player
      newInvulnerabilityTime == Max(0, p0.invulnerabilityTime - deltaTime)
      s1 == IF p0.invulnerabilityTime > 0
            THEN IF newInvulnerabilityTime = 0
                 THEN updatePlayer(s, [invulnerable |-> FALSE,
                                       invulnerabilityTime |-> 0])
                 ELSE updatePlayer(s, [invulnerabilityTime |-> newInvulnerabilityTime])
            ELSE s
      newShipUpgradeTime == Max(0, p0.shipUpgradeTime - deltaTime)
  IN  IF p0.shipUpgradeTime > 0
      THEN IF newShipUpgradeTime = 0
           THEN updatePlayer(s1, [shipLevel |-> 1, shipUpgradeTime |-> 0])
           ELSE updatePlayer(s1, [shipUpgradeTime |-> newShipUpgradeTime])
      ELSE s1

\* the steps of updateGameLogic once the test of isRunning and isPaused
\* has passed
gameLogicSteps(s, deltaTime) ==
  Then(playerTimers(s, deltaTime), LAMBDA s1 :
  Then(updateEnemies(s1, deltaTime), LAMBDA s2 :
  Then(updateBullets(s2, deltaTime), LAMBDA s3 :
  Then(updatePowerUps(s3, deltaTime), LAMBDA s4 :
  Then(updateParticles(s4, deltaTime), LAMBDA s5 :
  Then(updateExplosions(s5, deltaTime), LAMBDA s6 :
  Then(checkCollisions(s6), LAMBDA s7 : spawnEnemies(s7))))))))

\* mutant of updateGameLogic: no test of isRunning and isPaused
updateGameLogicUnguarded(s, deltaTime) == gameLogicSteps(s, deltaTime)

updateGameLogic(s, deltaTime) ==
  IF ~s.isRunning \/ s.isPaused THEN s
  ELSE gameLogicSteps(s, deltaTime)

\* Game.tsx: the body of gameLoop after the test of isRunning and isPaused
gameLoop(s, deltaTime) ==
  Then(IF s.inputState.left THEN movePlayer(s, "left", deltaTime) ELSE s,
       LAMBDA s1 :
  Then(IF s1.inputState.right THEN movePlayer(s1, "right", deltaTime) ELSE s1,
       LAMBDA s2 :
  Then(IF s2.inputState.shoot /\ s2.shootCooldownRef <= 0
       THEN [playerShoot(s2) EXCEPT !.shootCooldownRef = 250]
       ELSE s2,
       LAMBDA s3 :
  Then(IF s3.shootCooldownRef > 0
       THEN [s3 EXCEPT !.shootCooldownRef = @ - deltaTime]
       ELSE s3,
       LAMBDA s4 : updateGameLogic(s4, deltaTime)))))

-----------------------------------------------------------------------------
(* Game control actions and input management *)

\* whether a game has left something in the store: an entity, a player that
\* is not the initial one, a level above 1 or a boss battle
usedStore(s) ==
  \/ s.enemies # <<>> \/ s.bullets # <<>> \/ s.powerUps # <<>>
  \/ s.particles # <<>> \/ s.explosions # <<>>
  \/ s.player # createInitialPlayer
  \/ s.level # 1 \/ s.isBossBattle

\* mutant of startGame: the enemies of the game before stay
startGameKeepEnemies(s) ==
  Then(checkLevelAdvancement(
         [s EXCEPT !.gameState = "playing",
                   !.isRunning = TRUE,
                   !.isPaused = FALSE,
                   !.level = 1,
                   !.isBossBattle = FALSE,
                   !.player = createInitialPlayer,
                   !.bullets = <<>>,
                   !.powerUps = <<>>,
                   !.particles = <<>>,
                   !.explosions = <<>>]), LAMBDA r :
    Log(r, [op |-> "startGame", preUsed |-> usedStore(s)]))

startGame(s) ==
  Then(checkLevelAdvancement(
         [s EXCEPT !.gameState = "playing",
                   !.isRunning = TRUE,
                   !.isPaused = FALSE,
                   !.level = 1,
                   !.isBossBattle = FALSE,
                   !.player = createInitialPlayer,
                   !.enemies = <<>>,
                   !.bullets = <<>>,
                   !.powerUps = <<>>,
                   !.particles = <<>>,
                   !.explosions = <<>>]), LAMBDA r :
    Log(r, [op |-> "startGame", preUsed |-> usedStore(s)]))

pauseGame(s) == [s EXCEPT !.gameState = "paused", !.isPaused = TRUE]

resumeGame(s) == [s EXCEPT !.gameState = "playing", !.isPaused = FALSE]

resetGame(s) ==
  Then([s EXCEPT !.level = 1,
                 !.isBossBattle = FALSE,
                 !.player = createInitialPlayer,
                 !.enemies = <<>>,
                 !.bullets = <<>>,
                 !.powerUps = <<>>,
                 !.particles = <<>>,
                 !.explosions = <<>>], LAMBDA r :
    Log(r, [op |-> "resetGame"]))

updateInput(s, input) == [s EXCEPT !.inputState = Merge(@, input)]

handleKeyDown(s, key) ==
  LET s1 == IF key = ControlLeft THEN updateInput(s, [left |-> TRUE]) ELSE s
      s2 == IF key = ControlRight THEN updateInput(s1, [right |-> TRUE]) ELSE s1
      s3 == IF key = ControlUp THEN updateInput(s2, [up |-> TRUE]) ELSE s2
      s4 == IF key = ControlDown THEN updateInput(s3, [down |-> TRUE]) ELSE s3
      s5 == IF key = ControlShoot THEN updateInput(s4, [shoot |-> TRUE]) ELSE s4
  IN  IF key = ControlPause
      THEN IF s5.gameState = "playing" THEN pauseGame(s5)
           ELSE IF s5.gameState = "paused" THEN resumeGame(s5)
           ELSE s5
      ELSE s5

handleKeyUp(s, key) ==
  LET s1 == IF key = ControlLeft THEN updateInput(s, [left |-> FALSE]) ELSE s
      s2 == IF key = ControlRight THEN updateInput(s1, [right |-> FALSE]) ELSE s1
      s3 == IF key = ControlUp THEN updateInput(s2, [up |-> FALSE]) ELSE s2
      s4 == IF key = ControlDown THEN updateInput(s3, [down |-> FALSE]) ELSE s3
  IN  IF key = ControlShoot THEN updateInput(s4, [shoot |-> FALSE]) ELSE s4

-----------------------------------------------------------------------------
(* Bounds and inputs *)

\* number of frames of 500 ms the clock may advance
MaxTicks == 7

\* the frame times (deltaTime, ms) the frame callback is called with
DeltaTimes == {500}

\* Date.now() at construction: a multiple of the 20 s period of the boss
ClockStart == 5000 * 4

ClockLimit == ClockStart + MaxTicks * 500

\* how long the frame callback finds the game paused or stopped (ms)
PauseTimes == {2000}

\* keys the player presses
Keys == {ControlShoot, ControlPause}

\* the enemy types the random choice of spawnEnemies is taken from
ModelTypes == {"basic", "shielded", "regenerator", "boss"}

\* outcomes of Math.random() * (canvas.width - size.width) in createEnemy
SpawnXs == {400}

\* outcomes of the sine and cosine of the clock in updateEnemies
Waves == {0}

\* outcomes of the power-up roll of a destroyed enemy
DropChoices == {"none", "health", "weapon", "shield", "ship"}

\* outcomes of 7000 + Math.random() * 2000
ShipDurations == {7000, 8500}

NoRnd ==
  [wave |-> 0, drops |-> <<>>, shipLevel |-> 2, shipDuration |-> 7000,
   miniRoll |-> FALSE, bossRoll |-> FALSE, megaRoll |-> FALSE,
   spawnIndex |-> 1, spawnX |-> 400]

\* the sequences of n power-up rolls
DropSeqs(n) == [1..n -> DropChoices]

ShipChoices(picked) ==
  IF picked THEN {2, 3, 4} \X ShipDurations ELSE {<<2, 7000>>}

\* the rolls and the index spawnEnemies can draw at level lvl
SpawnChoices(spawned, lvl) ==
  IF ~spawned THEN {<<FALSE, 1, 400>>}
  ELSE {c \in (IF lvl >= 15 THEN BOOLEAN ELSE {FALSE})
               \X (1..10) \X SpawnXs :
          LET types == getAvailableEnemyTypes(lvl, FALSE, c[1], FALSE)
          IN  c[2] <= Len(types) /\ types[c[2]] \in ModelTypes}

-----------------------------------------------------------------------------
(* State machine *)

\* the store and the frame as a record
Store(rnd, clock) ==
  [gameState |-> gameState, isRunning |-> isRunning, isPaused |-> isPaused,
   level |-> level, isBossBattle |-> isBossBattle, player |-> player,
   enemies |-> enemies, bullets |-> bullets, powerUps |-> powerUps,
   particles |-> particles, explosions |-> explosions,
   inputState |-> inputState, stats |-> stats,
   lastFrameTime |-> lastFrameTime, lastSpawnTime |-> lastSpawnTime,
   shootCooldownRef |-> shootCooldownRef,
   now |-> clock, rnd |-> rnd, idc |-> 0, kills |-> 0,
   spawned |-> FALSE, shipPicked |-> FALSE, calls |-> <<>>]

\* the store after the handler becomes the next state
Commit(v) ==
  \E r \in {v} :
    /\ gameState' = r.gameState
    /\ isRunning' = r.isRunning
    /\ isPaused' = r.isPaused
    /\ level' = r.level
    /\ isBossBattle' = r.isBossBattle
    /\ player' = r.player
    /\ enemies' = r.enemies
    /\ bullets' = r.bullets
    /\ powerUps' = r.powerUps
    /\ particles' = r.particles
    /\ explosions' = r.explosions
    /\ inputState' = r.inputState
    /\ stats' = r.stats
    /\ lastFrameTime' = r.lastFrameTime
    /\ lastSpawnTime' = r.lastSpawnTime
    /\ shootCooldownRef' = r.shootCooldownRef
    /\ now' = r.now
    /\ calls' = r.calls
    /\ UNCHANGED probe

Init ==
  /\ gameState = "menu"
  /\ isRunning = FALSE
  /\ isPaused = FALSE
  /\ level = 1
  /\ isBossBattle = FALSE
  /\ player = createInitialPlayer
  /\ enemies = <<>>
  /\ bullets = <<>>
  /\ powerUps = <<>>
  /\ particles = <<>>
  /\ explosions = <<>>
  /\ inputState = initialInputState
  /\ stats = initialStats
  /\ lastFrameTime = 0
  /\ lastSpawnTime = 0
  /\ shootCooldownRef = 0
  /\ now = ClockStart
  /\ calls = <<>>
  /\ probe = [kind |-> "none"]

StartGame == Commit(startGame(Store(NoRnd, now)))

PauseGame == Commit(pauseGame(Store(NoRnd, now)))

ResumeGame == Commit(resumeGame(Store(NoRnd, now)))

EndGame == Commit(endGame(Store(NoRnd, now)))

ResetGame == Commit(resetGame(Store(NoRnd, now)))

HandleKeyDown == \E key \in Keys : Commit(handleKeyDown(Store(NoRnd, now), key))

HandleKeyUp == \E key \in Keys : Commit(handleKeyUp(Store(NoRnd, now), key))

\* the frame callback while the game is stopped or paused: it returns at
\* once, and Date.now() goes on.  The time spent here is in no deltaTime:
\* the effect that starts the loop sets lastFrameTimeRef to the current time
\* when isRunning or isPaused changes.
SkipFrames ==
  /\ ~isRunning \/ isPaused
  /\ \E pause \in PauseTimes :
       /\ now + pause <= ClockLimit
       /\ now' = now + pause
  /\ calls' = <<>>
  /\ UNCHANGED <<storeVars, shootCooldownRef, probe>>

\* updateGameLogic called while the game is stopped or paused
UpdateGameLogic ==
  /\ ~isRunning \/ isPaused
  /\ \E deltaTime \in DeltaTimes :
       Commit(updateGameLogic(Store(NoRnd, now), deltaTime))

\* one call of the frame callback that passes the test of isRunning and
\* isPaused, deltaTime after the previous one
GameLoop ==
  /\ isRunning /\ ~isPaused
  /\ \E deltaTime \in DeltaTimes, wave \in Waves :
       /\ now + deltaTime <= ClockLimit
       /\ \E dry \in {gameLoop(Store([NoRnd EXCEPT !.wave = wave], now + deltaTime),
                                deltaTime)} :
            \E drops \in DropSeqs(dry.kills),
               ship \in ShipChoices(dry.shipPicked),
               spawn \in SpawnChoices(dry.spawned, dry.level) :
                Commit(gameLoop(
                  Store([wave |-> wave, drops |-> drops,
                         shipLevel |-> ship[1], shipDuration |-> ship[2],
                         miniRoll |-> FALSE, bossRoll |-> spawn[1],
                         megaRoll |-> FALSE,
                         spawnIndex |-> spawn[2], spawnX |-> spawn[3]],
                        now + deltaTime),
                  deltaTime))

Next ==
  \/ StartGame
  \/ PauseGame
  \/ ResumeGame
  \/ EndGame
  \/ ResetGame
  \/ HandleKeyDown
  \/ HandleKeyUp
  \/ SkipFrames
  \/ UpdateGameLogic
  \/ GameLoop

Spec == Init /\ [][Next]_vars

-----------------------------------------------------------------------------
(* Sessions in progress.  Reaching level 9 takes more than a hundred kills  *)
(* from construction, so the boss battle (every 10th level), the boss in    *)
(* the random roster (level 15) and the loss of the last life are explored  *)
(* from states of a session that is already running: the store as          *)
(* startGame, the frames and the kills so far have left it.                 *)

\* an enemy spawned at x = 400 at the time born, `age` frames of 500 ms ago,
\* as createEnemy made it and updateEnemies has moved it since
agedEnemy(lvl, type, age, born) ==
  LET made == createEnemy([level |-> lvl, now |-> born, idc |-> 0], type, 400, -50)
      step == IF type = "regenerator" THEN 35 ELSE 50
  IN  IF age = 0 THEN made
      ELSE [made EXCEPT !.position.y = -50 + age * step,
                        !.velocity = [x |-> 0, y |-> step]]

\* a power-up dropped `age` frames of 500 ms ago by a basic enemy destroyed
\* at y = 150, as checkCollisions made it and updatePowerUps has moved it
droppedPowerUp(type, age) ==
  [id |-> <<"powerup", ClockStart - age * 500, 1, 0>>,
   position |-> [x |-> 400 + 35 \div 2 - 15, y |-> 150 + 35 \div 2 - 15 + age * 25],
   velocity |-> [x |-> 0, y |-> 50],
   size |-> [width |-> 30, height |-> 30],
   type |-> type,
   duration |-> 10000 - age * 500]

\* a session at level 9, 82 points short of level 10, weapon level 6, the
\* multi-shot ship for another 1.5 s, one hit from losing a life, with three basic enemies on their way down and a
\* health power-up falling towards the player
SessionLevel9(lives) ==
  [gameState |-> "playing", isRunning |-> TRUE, isPaused |-> FALSE,
   level |-> 9, isBossBattle |-> FALSE,
   player |-> [createInitialPlayer EXCEPT !.score = 24700,
                                          !.weaponLevel = 6,
                                          !.shipLevel = 2,
                                          !.shipUpgradeTime = 1500,
                                          !.lives = lives,
                                          !.health = 50 * Q],
   enemies |-> <<agedEnemy(9, "basic", 10, ClockStart - 5000),
                 agedEnemy(9, "basic", 6, ClockStart - 3000),
                 agedEnemy(9, "basic", 2, ClockStart - 1000)>>,
   bullets |-> <<>>,
   powerUps |-> <<droppedPowerUp("health", 10)>>,
   particles |-> <<>>, explosions |-> <<>>,
   inputState |-> initialInputState,
   stats |-> [initialStats EXCEPT !.highestLevel = 9],
   lastFrameTime |-> ClockStart - 5000,
   lastSpawnTime |-> ClockStart - 1000,
   shootCooldownRef |-> -250,
   now |-> ClockStart]

\* a session that has just reached level 15, with nothing on the screen
SessionLevel15 ==
  [gameState |-> "playing", isRunning |-> TRUE, isPaused |-> FALSE,
   level |-> 15, isBossBattle |-> FALSE,
   player |-> [createInitialPlayer EXCEPT !.score = 175000,
                                          !.weaponLevel = 10],
   enemies |-> <<>>,
   bullets |-> <<>>, powerUps |-> <<>>, particles |-> <<>>, explosions |-> <<>>,
   inputState |-> initialInputState,
   stats |-> [initialStats EXCEPT !.highestLevel = 15],
   lastFrameTime |-> ClockStart - 5000,
   lastSpawnTime |-> ClockStart - 5000,
   shootCooldownRef |-> -250,
   now |-> ClockStart]

\* a session at level 7 with as many enemies as getMaxEnemiesForLevel allows,
\* all of them regenerators: the player has paused for 2 s after every frame
\* of 500 ms, so that every frame spawned an enemy (spawnEnemies compares
\* Date.now(), which runs on during a pause, with lastSpawnTime) while the
\* enemies moved for 500 ms per frame.  The last frame was 1 s before the
\* end of the explored time.
CrowdedNow == ClockLimit - 1000

SessionCrowded ==
  [gameState |-> "playing", isRunning |-> TRUE, isPaused |-> FALSE,
   level |-> 7, isBossBattle |-> FALSE,
   player |-> [createInitialPlayer EXCEPT !.score = 9000,
                                          !.weaponLevel = 8],
   enemies |-> [k \in 1 .. getMaxEnemiesForLevel(7) |->
                  LET age == getMaxEnemiesForLevel(7) - k
                  IN  agedEnemy(7, "regenerator", age, CrowdedNow - age * 2500)],
   bullets |-> <<>>, powerUps |-> <<>>, particles |-> <<>>, explosions |-> <<>>,
   inputState |-> initialInputState,
   stats |-> [initialStats EXCEPT !.highestLevel = 7],
   lastFrameTime |-> CrowdedNow - 5000,
   lastSpawnTime |-> CrowdedNow,
   shootCooldownRef |-> -250,
   now |-> CrowdedNow]

SessionStarts ==
  {SessionLevel9(2), SessionLevel9(1), SessionLevel15, SessionCrowded}

\* the variables are those of one of the stores of starts
StartsIn(starts) ==
  /\ \E start \in starts :
       /\ gameState = start.gameState
       /\ isRunning = start.isRunning
       /\ isPaused = start.isPaused
       /\ level = start.level
       /\ isBossBattle = start.isBossBattle
       /\ player = start.player
       /\ enemies = start.enemies
       /\ bullets = start.bullets
       /\ powerUps = start.powerUps
       /\ particles = start.particles
       /\ explosions = start.explosions
       /\ inputState = start.inputState
       /\ stats = start.stats
       /\ lastFrameTime = start.lastFrameTime
       /\ lastSpawnTime = start.lastSpawnTime
       /\ shootCooldownRef = start.shootCooldownRef
       /\ now = start.now
  /\ calls = <<>>
  /\ probe = [kind |-> "none"]

InitSession == StartsIn(SessionStarts)

SpecSession == InitSession /\ [][Next]_vars

-----------------------------------------------------------------------------
(* Sessions under fire.  The four firing patterns meet a column of enemies *)
(* within a few frames, and two power-ups reach the player together.       *)

\* the last frame was 2 s before the end of the explored time
FireNow == ClockLimit - 2000

\* a power-up dropped `age` frames of 500 ms ago by an enemy of height 35
\* destroyed at x = 400 and y = row, as dropPowerUp made it and
\* updatePowerUps has moved it; roll stands for the Math.random() of its id
fallenPowerUp(type, row, age, roll) ==
  [id |-> <<"powerup", FireNow - age * 500, roll, 0>>,
   position |-> [x |-> 400 + 35 \div 2 - 15, y |-> row + 35 \div 2 - 15 + age * 25],
   velocity |-> [x |-> 0, y |-> 50],
   size |-> [width |-> 30, height |-> 30],
   type |-> type,
   duration |-> 10000 - age * 500]

\* a session at level 7 with weapon level 4 and the ship of tier shipLevel,
\* in which the player has paused for 2 s after every frame of 500 ms, so
\* that every frame spawned an enemy at x = 400, and has destroyed all of
\* them but five: a regenerator the basic enemy behind it has caught up
\* with (35 against 50 pixels per frame), a basic enemy, a shielded enemy
\* and the enemy of the last frame
SessionColumn(shipLevel) ==
  [gameState |-> "playing", isRunning |-> TRUE, isPaused |-> FALSE,
   level |-> 7, isBossBattle |-> FALSE,
   player |-> [createInitialPlayer EXCEPT
                 !.score = 9000,
                 !.weaponLevel = 4,
                 !.shipLevel = shipLevel,
                 !.shipUpgradeTime = IF shipLevel = 1 THEN 0 ELSE 1500],
   enemies |-> <<agedEnemy(7, "regenerator", 10, FireNow - 10 * 2500),
                 agedEnemy(7, "basic", 7, FireNow - 7 * 2500),
                 agedEnemy(7, "basic", 4, FireNow - 4 * 2500),
                 agedEnemy(7, "shielded", 3, FireNow - 3 * 2500),
                 agedEnemy(7, "basic", 0, FireNow)>>,
   bullets |-> <<>>, powerUps |-> <<>>, particles |-> <<>>, explosions |-> <<>>,
   inputState |-> initialInputState,
   stats |-> [initialStats EXCEPT !.highestLevel = 7],
   lastFrameTime |-> FireNow - 5000,
   lastSpawnTime |-> FireNow,
   shootCooldownRef |-> -250,
   now |-> FireNow]

\* a session at level 7 in which, ten frames ago, one laser (ship tier 3,
\* weapon level 5) destroyed a regenerator at y = 265 and the basic enemy
\* at y = 250 that had caught up with it, and both dropped a power-up; the
\* ship upgrade has run out since
SessionDrops ==
  [gameState |-> "playing", isRunning |-> TRUE, isPaused |-> FALSE,
   level |-> 7, isBossBattle |-> FALSE,
   player |-> [createInitialPlayer EXCEPT !.score = 9000,
                                          !.weaponLevel = 5,
                                          !.health = 50 * Q],
   enemies |-> <<agedEnemy(7, "basic", 0, FireNow)>>,
   bullets |-> <<>>,
   powerUps |-> <<fallenPowerUp("health", 265, 10, 3),
                  fallenPowerUp("shield", 250, 10, 8)>>,
   particles |-> <<>>, explosions |-> <<>>,
   inputState |-> initialInputState,
   stats |-> [initialStats EXCEPT !.highestLevel = 7],
   lastFrameTime |-> FireNow - 5000,
   lastSpawnTime |-> FireNow,
   shootCooldownRef |-> -250,
   now |-> FireNow]

\* one of the two swarm enemies of a regenerator of level lvl that was
\* destroyed with full health at x = 400 and y = row, `age` frames of
\* 500 ms ago, as checkCollisions made it and updateEnemies has moved it
agedSwarm(lvl, i, row, age, born) ==
  LET made == createEnemy([level |-> lvl, now |-> born, idc |-> i], "swarm",
                          400 + (i * 20) - 10, row + 20)
      regenerator == getEnemyStats("regenerator", lvl)
      reduced == ((regenerator.health * 3) \div (10 * Q)) * Q
  IN  [made EXCEPT !.health = reduced,
                   !.maxHealth = reduced,
                   !.points = regenerator.points \div 5,
                   !.size = [width |-> 20, height |-> 20],
                   !.position.y = row + 20 + age * 50,
                   !.velocity = [x |-> 0, y |-> 50]]

\* a session at level 7 in which the player, at health 25, has destroyed a
\* basic enemy at y = 350 six frames ago, which dropped a health power-up,
\* and a regenerator at y = 335 three frames ago: its two swarm enemies and
\* the power-up are one frame away from the player
SessionContact(lives) ==
  [gameState |-> "playing", isRunning |-> TRUE, isPaused |-> FALSE,
   level |-> 7, isBossBattle |-> FALSE,
   player |-> [createInitialPlayer EXCEPT !.score = 9000,
                                          !.weaponLevel = 4,
                                          !.lives = lives,
                                          !.health = 25 * Q],
   enemies |-> <<agedSwarm(7, 0, 335, 3, FireNow - 3 * 500),
                 agedSwarm(7, 1, 335, 3, FireNow - 3 * 500),
                 agedEnemy(7, "basic", 0, FireNow)>>,
   bullets |-> <<>>,
   powerUps |-> <<fallenPowerUp("health", 350, 6, 3)>>,
   particles |-> <<>>, explosions |-> <<>>,
   inputState |-> initialInputState,
   stats |-> [initialStats EXCEPT !.highestLevel = 7],
   lastFrameTime |-> FireNow - 5000,
   lastSpawnTime |-> FireNow,
   shootCooldownRef |-> -250,
   now |-> FireNow]

\* a session at level 7 with a regenerator that a bullet of 100 has left
\* with health 79, that has regenerated 5 per second up to 100.5 since and
\* has just been hit by a second bullet of 100: health 0.5
SessionWounded ==
  [gameState |-> "playing", isRunning |-> TRUE, isPaused |-> FALSE,
   level |-> 7, isBossBattle |-> FALSE,
   player |-> [createInitialPlayer EXCEPT !.score = 9000,
                                          !.weaponLevel = 4],
   enemies |-> <<[agedEnemy(7, "regenerator", 10, FireNow - 10 * 500)
                    EXCEPT !.health = Q \div 2],
                 agedEnemy(7, "basic", 0, FireNow)>>,
   bullets |-> <<>>, powerUps |-> <<>>, particles |-> <<>>, explosions |-> <<>>,
   inputState |-> initialInputState,
   stats |-> [initialStats EXCEPT !.highestLevel = 7,
                                  !.totalBulletsFired = 2],
   lastFrameTime |-> FireNow - 500,
   lastSpawnTime |-> FireNow,
   shootCooldownRef |-> -250,
   now |-> FireNow]

\* a boss of the random roster (level 15 and later, getAvailableEnemyTypes)
\* spawned at the column x at the time born and moved down to the row y since
rosterBoss(lvl, x, y, born) ==
  [agedEnemy(lvl, "boss", 0, born) EXCEPT !.position = [x |-> x, y |-> y],
                                          !.velocity = [x |-> 0, y |-> 10]]

\* a session at level 19, 182 points short of level 20, in which the random
\* roster has spawned two bosses that are still on the screen, and a basic
\* enemy that two bullets of 250 have left with health 165 is in the column
\* of the player
SessionBosses ==
  [gameState |-> "playing", isRunning |-> TRUE, isPaused |-> FALSE,
   level |-> 19, isBossBattle |-> FALSE,
   player |-> [createInitialPlayer EXCEPT !.score = 1315500,
                                          !.weaponLevel = 10],
   enemies |-> <<rosterBoss(19, 100, 40, FireNow - 8 * 2500),
                 [agedEnemy(19, "basic", 7, FireNow - 7 * 2500)
                    EXCEPT !.health = 165 * Q],
                 rosterBoss(19, 600, 10, FireNow - 5 * 2500),
                 agedEnemy(19, "basic", 0, FireNow)>>,
   bullets |-> <<>>, powerUps |-> <<>>, particles |-> <<>>, explosions |-> <<>>,
   inputState |-> initialInputState,
   stats |-> [initialStats EXCEPT !.highestLevel = 19,
                                  !.totalBulletsFired = 2],
   lastFrameTime |-> FireNow - 500,
   lastSpawnTime |-> FireNow,
   shootCooldownRef |-> -250,
   now |-> FireNow]

FireStarts ==
  {SessionColumn(k) : k \in 1..4} \cup {SessionDrops}
    \cup {SessionContact(2), SessionContact(1)} \cup {SessionWounded}
    \cup {SessionBosses}

InitFire == StartsIn(FireStarts)

SpecFire == InitFire /\ [][Next]_vars

-----------------------------------------------------------------------------
(* The effects on the screen                                                *)
(* Power-ups, particles and explosions are aged by three calls of every     *)
(* frame (updatePowerUps, updateParticles, updateExplosions); the other     *)
(* calls of a frame add new items or collect a power-up, and leave the age  *)
(* of the items that are there alone.  The frames that follow a session     *)
(* with some effects shortly before their end are explored here for these   *)
(* three calls; the explored time (ClockLimit) is longer than the time the  *)
(* oldest of the effects has left.                                          *)

\* the most power-ups, particles and explosions on the screen at the start
MaxItems == 2

\* the frame times of these frames: a frame at 60 Hz and a slow one
AgingDeltas == {16, 500}

\* a session at level 7 with nothing on the screen but n power-ups with
\* 500, 1000, ... ms left, m particles of debris (maxLifetime 800) that are
\* 700, 600, ... ms old and k explosions (7 frames of 80 ms) that are 460,
\* 360, ... ms old
SessionEffects(n, m, k) ==
  [gameState |-> "playing", isRunning |-> TRUE, isPaused |-> FALSE,
   level |-> 7, isBossBattle |-> FALSE,
   player |-> [createInitialPlayer EXCEPT !.score = 9000,
                                          !.weaponLevel = 4],
   enemies |-> <<>>, bullets |-> <<>>,
   powerUps |-> [i \in 1 .. n |->
                   fallenPowerUp(IF i % 2 = 1 THEN "health" ELSE "weapon",
                                 50, 20 - i, i)],
   particles |-> [i \in 1 .. m |->
                    [id |-> <<"particle", FireNow - (800 - i * 100), i, i - 1>>,
                     position |-> [x |-> 417, y |-> 367],
                     lifetime |-> 800 - i * 100,
                     maxLifetime |-> 800]],
   explosions |-> [i \in 1 .. k |->
                     [id |-> <<"explosion", FireNow - (560 - i * 100), i, 0>>,
                      position |-> [x |-> 385, y |-> 335],
                      currentFrame |-> ((560 - i * 100) \div 80) % 7,
                      totalFrames |-> 7, frameTime |-> 80,
                      lifetime |-> 560 - i * 100, isActive |-> TRUE]],
   inputState |-> initialInputState,
   stats |-> [initialStats EXCEPT !.highestLevel = 7],
   lastFrameTime |-> FireNow - 500,
   lastSpawnTime |-> FireNow,
   shootCooldownRef |-> -250,
   now |-> FireNow]

EffectStarts ==
  {SessionEffects(n, m, k) : n \in 0 .. MaxItems, m \in 0 .. MaxItems,
                             k \in 0 .. MaxItems}

\* the three calls of updateGameLogic that age the effects
updateEffects(s, deltaTime) ==
  Then(updatePowerUps(s, deltaTime), LAMBDA s1 :
  Then(updateParticles(s1, deltaTime), LAMBDA s2 :
       updateExplosions(s2, deltaTime)))

\* a frame of a running game with effects on the screen
UpdateEffects ==
  /\ isRunning /\ ~isPaused
  /\ powerUps # <<>> \/ particles # <<>> \/ explosions # <<>>
  /\ \E deltaTime \in AgingDeltas :
       /\ now + deltaTime <= ClockLimit
       /\ Commit(updateEffects(Store(NoRnd, now + deltaTime), deltaTime))

InitEffects == StartsIn(EffectStarts)

NextEffects == UpdateEffects

\* frames keep occurring as long as the game is running
SpecEffects == InitEffects /\ [][NextEffects]_vars /\ WF_vars(UpdateEffects)

-----------------------------------------------------------------------------
(* The level mathematics on its own: one evaluation of                      *)
(* calculateLevelFromScore or of getScoreForNextLevel per behaviour, on any *)
(* integer score up to MaxProbeScore or any level up to MaxProbeLevel.      *)

MaxProbeScore == 9000
MaxProbeLevel == 12

ProbeScore ==
  /\ probe.kind = "none"
  /\ \E score \in 0 .. MaxProbeScore :
       probe' = [kind |-> "score", score |-> score,
                 level |-> calculateLevelFromScore(score)]
  /\ UNCHANGED <<storeVars, now, shootCooldownRef, calls>>

\* the threshold of level n and the level the code computes for a score that
\* is exactly on it
ProbeLevel ==
  /\ probe.kind = "none"
  /\ \E n \in 1 .. MaxProbeLevel :
       probe' = [kind |-> "level", n |-> n,
                 threshold |-> getScoreForNextLevel(n),
                 level |-> calculateLevelFromScaled(getScoreForNextLevel(n))]
  /\ UNCHANGED <<storeVars, now, shootCooldownRef, calls>>

NextLevels ==
  \/ ProbeScore
  \/ ProbeLevel

SpecLevels == Init /\ [][NextLevels]_vars

-----------------------------------------------------------------------------
(* The collision test on its own: one evaluation of isColliding, in both   *)
(* orders of the arguments, on any two rectangles of whole pixels with     *)
(* corners up to MaxCorner and sides up to MaxSide.                        *)

MaxCorner == 3
MaxSide == 2

Rectangles ==
  {[position |-> [x |-> x, y |-> y], size |-> [width |-> w, height |-> h]] :
     x \in 0 .. MaxCorner, y \in 0 .. MaxCorner, w \in 1 .. MaxSide, h \in 1 .. MaxSide}

ProbeColliding ==
  /\ probe.kind = "none"
  /\ \E a \in Rectangles, b \in Rectangles :
       probe' = [kind |-> "colliding", a |-> a, b |-> b,
                 ab |-> isColliding(a, b), ba |-> isColliding(b, a),
                 serviceAb |-> serviceIsColliding(a, b),
                 serviceBa |-> serviceIsColliding(b, a)]
  /\ UNCHANGED <<storeVars, now, shootCooldownRef, calls>>

NextColliding == ProbeColliding

SpecColliding == Init /\ [][NextColliding]_vars

-----------------------------------------------------------------------------
(* Claims on the level mathematics *)

\* C7: getScoreForNextLevel(n) is the boundary between level n and level
\* n + 1: the score getScoreForNextLevel(n) maps to level n + 1, and every
\* score from getScoreForNextLevel(n - 1) up to, not including,
\* getScoreForNextLevel(n) maps to level n.
C7_ThresholdIsBoundary ==
  /\ probe.kind = "level" => probe.level = probe.n + 1
  /\ probe.kind = "score" =>
       \A n \in 1 .. MaxProbeLevel :
         ( /\ getScoreForNextLevel(n - 1) <= probe.score * LevelScale
           /\ probe.score * LevelScale < getScoreForNextLevel(n) )
         => probe.level = n

\* C8: score 0 is level 1, score 1000 is level 2, score 5000 is level 5, and
\* 6500 is the smallest score of level 6.
C8_ScenarioA ==
  probe.kind = "score" =>
    /\ probe.score = 0 => probe.level = 1
    /\ probe.score = 1000 => probe.level = 2
    /\ probe.score = 5000 => probe.level = 5
    /\ probe.score = 6500 => probe.level = 6
    /\ probe.score < 6500 => probe.level < 6

C8_Witness ==
  /\ probe.kind = "score"
  /\ probe.score = 6499
  /\ probe.level = 5

-----------------------------------------------------------------------------
(* Claims on the store.  A claim about what a call does is stated on the    *)
(* history calls, which holds the calls of the last action in the order in  *)
(* which they returned, each with the store it found and the store it left. *)

CallIndex == 1 .. Len(calls)

IsCall(i, op) == calls[i].op = op

\* C1: whenever checkLevelAdvancement runs during a boss battle with a boss
\* in the enemy collection, it changes neither level nor isBossBattle,
\* whatever the score.
C1_BossGate ==
  \A i \in CallIndex :
    ( /\ IsCall(i, "checkLevelAdvancement")
      /\ calls[i].preBossBattle
      /\ calls[i].preBosses >= 1 )
    => /\ calls[i].postLevel = calls[i].preLevel
       /\ calls[i].postBossBattle

\* a kill during a boss battle, with the boss on the screen
C1_Witness ==
  \E i \in CallIndex :
    /\ IsCall(i, "checkLevelAdvancement")
    /\ calls[i].preBossBattle
    /\ calls[i].preBosses >= 1
    /\ calls[i].preLevel = 10
    /\ calls[i].score > 24781

\* C2: a boss battle ends, with level going from L to L + 1, only when a
\* boss has been destroyed: every check that clears isBossBattle raises the
\* level by exactly 1 and comes with the destruction of a boss.
C2_OncePerBoss ==
  \A i \in CallIndex :
    ( /\ IsCall(i, "checkLevelAdvancement")
      /\ calls[i].preBossBattle
      /\ ~calls[i].postBossBattle )
    => /\ calls[i].postLevel = calls[i].preLevel + 1
       /\ \E j \in CallIndex :
            /\ IsCall(j, "hit")
            /\ calls[j].type = "boss"
            /\ calls[j].destroyed

\* C3: a boss in the enemy collection implies isBossBattle.
C3_BossImpliesBattle ==
  (\E i \in 1 .. Len(enemies) : enemies[i].type = "boss") => isBossBattle

\* C4: outside a boss battle the enemy collection holds at most
\* getMaxEnemiesForLevel(level) enemies.
C4_EnemyCap ==
  ~isBossBattle => Len(enemies) <= getMaxEnemiesForLevel(level)

\* C5: when playerTakeDamage brings the health to 0, then with more than one
\* life left one life is taken, health is back at maxHealth, the player is
\* invulnerable, the ship is tier 1 and gameState is as before; with the
\* last life, gameState is 'gameOver' and isRunning is false.
C5_PlayerDeath ==
  \A i \in CallIndex :
    ( /\ IsCall(i, "playerTakeDamage")
      /\ calls[i].prePlayer.health - calls[i].damage <= 0 )
    => /\ calls[i].prePlayer.lives > 1 =>
            /\ calls[i].postPlayer.lives = calls[i].prePlayer.lives - 1
            /\ calls[i].postPlayer.health = calls[i].postPlayer.maxHealth
            /\ calls[i].postPlayer.invulnerable
            /\ calls[i].postPlayer.shipLevel = 1
            /\ calls[i].postGameState = calls[i].preGameState
       /\ calls[i].prePlayer.lives = 1 =>
            /\ calls[i].postGameState = "gameOver"
            /\ ~calls[i].postRunning

\* a life lost with lives to spare
C5_Witness ==
  \E i \in CallIndex :
    /\ IsCall(i, "playerTakeDamage")
    /\ calls[i].prePlayer.health - calls[i].damage <= 0
    /\ calls[i].prePlayer.lives = 2
    /\ calls[i].postPlayer.lives = 1
    /\ calls[i].postGameState = "playing"

\* the last life lost
C5_WitnessLastLife ==
  \E i \in CallIndex :
    /\ IsCall(i, "playerTakeDamage")
    /\ calls[i].prePlayer.health - calls[i].damage <= 0
    /\ calls[i].prePlayer.lives = 1
    /\ calls[i].postGameState = "gameOver"

C6_WitnessAbsorbed ==
  \E i \in CallIndex :
    /\ IsCall(i, "hit")
    /\ calls[i].enemyInStore
    /\ calls[i].damage <= calls[i].shield
    /\ calls[i].endShield = calls[i].shield - calls[i].damage
    /\ calls[i].endHealth = calls[i].health

\* C9: the player's health is within [0, maxHealth]; the health of every
\* enemy is within [0, maxHealth] and its shield within [0, maxShield].
C9_HealthAndShieldInRange ==
  /\ 0 <= player.health
  /\ player.health <= player.maxHealth
  /\ \A i \in 1 .. Len(enemies) :
       /\ 0 <= enemies[i].health
       /\ enemies[i].health <= enemies[i].maxHealth
       /\ 0 <= enemies[i].shield
       /\ enemies[i].shield <= enemies[i].maxShield

\* a health power-up collected with less than 25 points missing
C9_Witness ==
  \E i \in CallIndex :
    /\ IsCall(i, "powerUp")
    /\ calls[i].type = "health"
    /\ calls[i].prePlayer.health + 25 * Q > calls[i].prePlayer.maxHealth
    /\ player.health = player.maxHealth

\* the edges of the game state machine of the spec
GameStateEdges ==
  { <<"menu", "playing">>, <<"playing", "paused">>, <<"paused", "playing">>,
    <<"playing", "gameOver">>, <<"gameOver", "playing">>, <<"gameOver", "menu">> }

\* C10: gameState starts as 'menu' and every change of it is one of the
\* edges menu->playing, playing->paused, paused->playing, playing->gameOver,
\* gameOver->playing, gameOver->menu, whatever store actions and key events
\* take place.
C10_GameStateEdges ==
  /\ gameState = "menu"
  /\ [][gameState' # gameState => <<gameState, gameState'>> \in GameStateEdges]_vars

-----------------------------------------------------------------------------
(* Game control: startGame, updateGameLogic outside a running game,         *)
(* pauseGame, resumeGame, endGame, resetGame                                *)

\* C11: after startGame, from any state, the five entity collections are
\* empty, the player is the initial player (score 0, lives 3, health 100,
\* shipLevel 1), level is 1, isBossBattle is false, isRunning is true,
\* isPaused is false and gameState is 'playing'.
C11_StartGameResets ==
  \A i \in CallIndex :
    IsCall(i, "startGame")
    => /\ enemies = <<>> /\ bullets = <<>> /\ powerUps = <<>>
       /\ particles = <<>> /\ explosions = <<>>
       /\ player = createInitialPlayer
       /\ player.score = 0 /\ player.lives = 3 /\ player.health = 100 * Q
       /\ player.shipLevel = 1
       /\ level = 1 /\ ~isBossBattle
       /\ isRunning /\ ~isPaused /\ gameState = "playing"

\* startGame has run on a store a game had used
C11_Witness ==
  \E i \in CallIndex :
    /\ IsCall(i, "startGame")
    /\ calls[i].preUsed

\* C12: updateGameLogic called with isRunning false or isPaused true changes
\* no field of the store, and pauseGame, resumeGame and endGame leave the
\* player, the five entity collections and level as they were; in every
\* reachable state.
C12_OnlyRunningAdvances ==
  LET s == Store(NoRnd, now)
  IN  /\ (~isRunning \/ isPaused)
         => \A deltaTime \in DeltaTimes :
              storeFields(updateGameLogic(s, deltaTime)) = storeFields(s)
      /\ gameFields(pauseGame(s)) = gameFields(s)
      /\ gameFields(resumeGame(s)) = gameFields(s)
      /\ gameFields(endGame(s)) = gameFields(s)

\* a paused game with enemies and bullets on their way, where a call of
\* updateGameLogic, pauseGame, resumeGame or endGame finds something to keep
C12_Witness ==
  /\ isRunning /\ isPaused /\ gameState = "paused"
  /\ enemies # <<>>
  /\ bullets # <<>>

\* C13: after resetGame, from any state, gameState is 'menu', isRunning and
\* isPaused are false, level is 1, isBossBattle is false, the five entity
\* collections are empty and the player is the initial player.
C13_ResetGameToMenu ==
  \A i \in CallIndex :
    IsCall(i, "resetGame")
    => /\ gameState = "menu" /\ ~isRunning /\ ~isPaused
       /\ level = 1 /\ ~isBossBattle
       /\ enemies = <<>> /\ bullets = <<>> /\ powerUps = <<>>
       /\ particles = <<>> /\ explosions = <<>>
       /\ player = createInitialPlayer

-----------------------------------------------------------------------------
(* Shooting and collisions *)

\* C14: a playerShoot that fires creates exactly 1 non-piercing bullet at
\* shipLevel 1, exactly 3 non-piercing bullets at shipLevel 2 with
\* horizontal velocities v, 0, -v (v not 0) and equal vertical velocities of
\* the outer two, exactly 1 piercing bullet at shipLevel 3 and exactly 2
\* piercing bullets at shipLevel 4; totalBulletsFired grows by the number of
\* bullets created.
C14_FiringPatterns ==
  \A i \in CallIndex :
    (IsCall(i, "playerShoot") /\ calls[i].fired)
    => LET created == calls[i].created
           lvl == calls[i].shipLevel
       IN  /\ lvl = 1 => /\ Len(created) = 1
                         /\ ~created[1].piercing
           /\ lvl = 2 => /\ Len(created) = 3
                         /\ \A k \in 1..3 : ~created[k].piercing
                         /\ created[1].velocity.x = -created[3].velocity.x
                         /\ created[1].velocity.x # 0
                         /\ created[2].velocity.x = 0
                         /\ created[1].velocity.y = created[3].velocity.y
                         /\ \A k \in 1..3 : created[k].velocity.y < 0
           /\ lvl = 3 => /\ Len(created) = 1
                         /\ created[1].piercing
           /\ lvl = 4 => /\ Len(created) = 2
                         /\ \A k \in 1..2 : created[k].piercing
           /\ calls[i].postFired = calls[i].preFired + Len(created)

\* a multi-shot has been fired
C14_Witness ==
  \E i \in CallIndex :
    /\ IsCall(i, "playerShoot") /\ calls[i].fired
    /\ calls[i].shipLevel = 2

\* the ids of a collection are all different
DistinctIds(collection) ==
  \A i, j \in 1 .. Len(collection) :
    collection[i].id = collection[j].id => i = j

\* C15: no two elements of one collection (enemies, bullets, powerUps,
\* particles, explosions) have the same id, those made in one frame and in
\* one millisecond of the clock included.
C15_UniqueIds ==
  /\ DistinctIds(enemies)
  /\ DistinctIds(bullets)
  /\ DistinctIds(powerUps)
  /\ DistinctIds(particles)
  /\ DistinctIds(explosions)

\* the pixels a rectangle covers
Pixels(r) ==
  (r.position.x .. r.position.x + r.size.width - 1)
    \X (r.position.y .. r.position.y + r.size.height - 1)

\* C16: isColliding(a, b) = isColliding(b, a), and isColliding is false for
\* rectangles that share no pixel, those that only touch along an edge
\* included; the same for the isColliding of the collision service.
C16_CollisionSymmetric ==
  probe.kind = "colliding"
  => /\ probe.ab = probe.ba
     /\ probe.serviceAb = probe.serviceBa
     /\ Pixels(probe.a) \cap Pixels(probe.b) = {} => ~probe.ab /\ ~probe.serviceAb

\* two rectangles side by side, with an edge in common, do not collide
C16_Witness ==
  /\ probe.kind = "colliding"
  /\ probe.a.position.x + probe.a.size.width = probe.b.position.x
  /\ probe.a.position.y = probe.b.position.y
  /\ ~probe.ab

\* the hits of the bullet loop of the last frame
Hits == {i \in CallIndex : IsCall(i, "hit")}

\* the hits of the last frame that found the enemy destroyed
Kills == {i \in Hits : calls[i].destroyed}

\* the hits of the last frame on one enemy
HitsOn(enemy) == {i \in Hits : calls[i].enemy = enemy}

FirstOf(S) == CHOOSE i \in S : \A j \in S : i <= j

LastOf(S) == CHOOSE i \in S : \A j \in S : j <= i

RECURSIVE SumOver(_, _)
SumOver(S, field) ==
  IF S = {} THEN 0
  ELSE LET i == FirstOf(S)
       IN  calls[i][field] + SumOver(S \ {i}, field)

\* one hit for every enemy destroyed in the last frame
KilledOnce == {i \in Kills : \A j \in Kills : calls[j].enemy = calls[i].enemy => i <= j}

\* C17: over the bullet loop of a frame, player.score grows by the sum of
\* the points of the enemies that player bullets have destroyed in the frame,
\* each enemy counted once.
C17_ScoreIsSumOfPoints ==
  Hits # {}
  => calls[LastOf(Hits)].postScore
       = calls[FirstOf(Hits)].preScore + SumOver(KilledOnce, "points")

\* C18: over the bullet loop of a frame, totalEnemiesDestroyed grows by the
\* number of enemies destroyed and one explosion is added for each of them,
\* however many bullets have hit them.
C18_DestroyedOnce ==
  Hits # {}
  => /\ calls[LastOf(Hits)].postDestroyed
          = calls[FirstOf(Hits)].preDestroyed + Cardinality(KilledOnce)
     /\ calls[LastOf(Hits)].postExplosions
          = calls[FirstOf(Hits)].preExplosions + Cardinality(KilledOnce)

\* C19: when several bullets hit one enemy in a frame, every hit after one
\* that has not destroyed the enemy applies to the shield and health that
\* hit has left, and for an enemy that survives shield + health has gone
\* down by the sum of the damages.
C19_HitsAccumulate ==
  \A i \in Hits :
    LET on == HitsOn(calls[i].enemy)
        before == {j \in on : j < i}
    IN  /\ (before # {} /\ ~calls[LastOf(before)].destroyed)
           => /\ calls[i].shield = calls[LastOf(before)].newShield
              /\ calls[i].health = calls[LastOf(before)].newHealth
        /\ (i = LastOf(on) /\ calls[i].endInStore)
           => calls[i].endShield + calls[i].endHealth
                = calls[FirstOf(on)].shield + calls[FirstOf(on)].health
                  - SumOver(on, "damage")

\* C20: a bullet that is not piercing hits at most one enemy and is out of
\* the bullet collection after the hit; a piercing bullet is still in the
\* collection after a hit.
C20_OneHitPerBullet ==
  \A i \in Hits :
    /\ ~calls[i].piercing
       => /\ \A j \in Hits : calls[j].bullet = calls[i].bullet => j = i
          /\ \A k \in 1 .. Len(bullets) : bullets[k].id # calls[i].bullet
    /\ calls[i].piercing
       => \E k \in 1 .. Len(bullets) : bullets[k].id = calls[i].bullet

-----------------------------------------------------------------------------
(* The player under fire *)

\* C21: playerTakeDamage is only called by the collision resolution while
\* the player's invulnerable flag is false: after a hit of a frame has cost
\* a life and made the player invulnerable, no other hit of the frame takes
\* health or lives.
C21_NoDamageWhileInvulnerable ==
  \A i \in CallIndex :
    IsCall(i, "playerTakeDamage") => ~calls[i].prePlayer.invulnerable

\* C22: every enemy of the collection has health above 0, the enemies that
\* have survived a hit and the two swarm enemies of a destroyed regenerator
\* included.
C22_EnemiesAlive ==
  \A i \in 1 .. Len(enemies) : enemies[i].health > 0

\* C24: every power-up collected in a frame acts on the player as the store
\* holds it when the power-up is collected: health becomes min(maxHealth,
\* health + 25), weaponLevel min(10, weaponLevel + 1), the shield sets
\* invulnerable for 5000 ms, the ship sets a tier of 2..4 for 7000..9000 ms.
C24_PowerUpEffects ==
  \A i \in CallIndex :
    IsCall(i, "powerUp")
    => LET pre == calls[i].prePlayer
           post == calls[i].postPlayer
       IN  /\ calls[i].type = "health"
              => post.health = Min(pre.maxHealth, pre.health + 25 * Q)
           /\ calls[i].type = "weapon"
              => post.weaponLevel = Min(10, pre.weaponLevel + 1)
           /\ calls[i].type = "shield"
              => post.invulnerable /\ post.invulnerabilityTime = 5000
           /\ calls[i].type = "ship"
              => /\ post.shipLevel \in {2, 3, 4}
                 /\ post.shipUpgradeTime \in 7000 .. 9000

\* C23: while isBossBattle is true the enemy collection holds at most one
\* boss.
C23_OneBossInBattle ==
  isBossBattle => Len(bossEnemiesOf(enemies)) <= 1

\* frame times handed to the player's timers: a frame at 60 Hz, and one of
\* a second, which is more than the 500 ms a timer ends with
TimerDeltas == {16, 1000}

C27_BattleOnTenthLevel ==
  isBossBattle => level % 10 = 0

\* the score has passed the threshold of level 10 and the battle is on
C27_Witness ==
  /\ isBossBattle /\ level = 10
  /\ calculateLevelFromScore(player.score) >= 10

C26_EffectsEnd ==
  /\ \A i \in 1 .. MaxItems :
       (\E j \in 1 .. Len(powerUps) : powerUps[j].id[3] = i)
         ~> (\A j \in 1 .. Len(powerUps) : powerUps[j].id[3] # i)
  /\ \A i \in 1 .. MaxItems :
       (\E j \in 1 .. Len(particles) : particles[j].id[3] = i)
         ~> (\A j \in 1 .. Len(particles) : particles[j].id[3] # i)
  /\ \A i \in 1 .. MaxItems :
       (\E j \in 1 .. Len(explosions) : explosions[j].id[3] = i)
         ~> (\A j \in 1 .. Len(explosions) : explosions[j].id[3] # i)

\* the frames have removed every effect that was on the screen
C26_Witness ==
  /\ now > FireNow
  /\ powerUps = <<>> /\ particles = <<>> /\ explosions = <<>>
  /\ stats.highestLevel = 7 /\ enemies = <<>> /\ player.score = 9000

\* C29: after the frame in which playerTakeDamage has ended the game, the
\* player has health 0, one life and the score playerTakeDamage has left.
C29_GameOverIsFinal ==
  \A i \in CallIndex :
    ( /\ IsCall(i, "playerTakeDamage")
      /\ calls[i].preGameState # "gameOver"
      /\ calls[i].postGameState = "gameOver" )
    => /\ player.health = 0
       /\ player.lives = 1
       /\ player.score = calls[i].postPlayer.score

\* C30: at the end of every store action and every step, invulnerable is
\* true exactly when invulnerabilityTime is positive, and shipLevel is above
\* 1 exactly when shipUpgradeTime is positive.
C30_FlagsFollowTimers ==
  /\ player.invulnerable <=> player.invulnerabilityTime > 0
  /\ player.shipLevel > 1 <=> player.shipUpgradeTime > 0

\* the ship upgrade has run out in a frame: the timer and the ship tier
\* have been reset together
C30_Witness ==
  /\ player.shipLevel = 1 /\ player.shipUpgradeTime = 0
  /\ player.lives = 3 /\ ~player.invulnerable
  /\ \E i \in CallIndex :
       /\ IsCall(i, "playerShoot") /\ calls[i].shipLevel > 1

=============================================================================
